---- MODULE Spec2Model ----
(***************************************************************************)
(* Model of the workflow orchestration engine of code-diffusion:           *)
(*   - WorkflowStateMachine  (src/src/orchestration/index.ts, 282..551)    *)
(*   - AgentSpawner          (src/src/orchestration/index.ts, 27..280)     *)
(*   - AgentFlowCoordinator  (src/unnamed/part_007)                        *)
(*   - WorkflowErrorHandler  (src/src/orchestration/workflow-error-handler.ts) *)
(* Timestamps (new Date()) carry no control flow and are abstracted to the *)
(* single value "ts"; createdAt/updatedAt are therefore left out.          *)
(***************************************************************************)
EXTENDS Integers, Sequences, FiniteSets, TLC

VARIABLES
    states,            \* WorkflowStateMachine.states : id -> WorkflowStateData
    result,            \* what the last call returned (or threw) to its caller
    workflowContexts,  \* AgentFlowCoordinator.workflowContexts
    notion,            \* the Status each workflow's page holds in the system of record
    tasks,             \* coordinator operations suspended at an await
    activeAgents,      \* AgentSpawner.activeAgents : agentId -> SpawnedAgent
    nextAgentId,       \* number of agent identifiers generated so far
    timeoutQueue,      \* armed 30 minute timers, in arming order
    graceQueue,        \* armed 5 second force-kill timers, in arming order
    processes,         \* the child processes created so far and their status
    nCalls,            \* number of kill / shutdown calls made so far
    nEvents,           \* number of process/timer events delivered so far
    nOps,              \* number of coordinator operations started so far
    observed,          \* per run: the stage initializeWorkflow was given and the
                       \* number of transition() calls that returned since then
    errorCounts,       \* WorkflowErrorHandler.errorCounts : errorKey -> number
    retried,           \* per errorKey: the retry verdicts handleError returned
    streak,            \* length of the run of retry verdicts that ends with the
                       \* last call: same key, attempt number one higher each time
                       \* since the key was last reset
    retryTask,         \* NotionCRUDService.withRetry: the call in progress
    clock,             \* Date.now(), in milliseconds since the spawner was built
    handles,           \* activeAgents keyed by the identifier strings that
                       \* generateAgentId builds: identifier -> child process
    children,          \* the child processes created under such identifiers:
                       \* process number -> that identifier, and is it running
    dispatched         \* the payloads handed to webhookHandler.processWebhook

vars == <<states, result, workflowContexts, notion, tasks, activeAgents,
          nextAgentId, timeoutQueue, graceQueue, processes, nCalls,
          nEvents, nOps, observed, errorCounts, retried, streak, retryTask,
          clock, handles, children, dispatched>>

smVars    == <<states, observed>>
coordVars == <<workflowContexts, notion, tasks, nOps>>
spawnVars == <<activeAgents, nextAgentId, timeoutQueue, graceQueue, processes,
               nCalls, nEvents>>
ehVars    == <<errorCounts, retried, streak>>
idVars    == <<clock, handles, children>>
hookVars  == <<dispatched>>
svcVars   == <<retryTask, clock, handles, children, dispatched>>

----------------------------------------------------------------------------
(* Bounds of the model *)

MaxHistory == 2     \* longest history a run is driven to by direct calls
MaxSpawns  == 11    \* agent identifiers that can be generated
MaxEvents  == 2     \* kill/shutdown calls plus process and timer events
MaxOps     == 4     \* coordinator operations started
MaxLive    == 2     \* agents spawned where every timer is left to run out
MaxIdSpawns == 3    \* processes created under generated identifier strings
MaxClock   == 1     \* milliseconds that pass while they are created
MaxWebhooks == 2    \* payloads handed to the webhook handler
MaxPending == 2     \* operations of one workflow suspended at the same time
MaxErrors  == 4     \* failures the error handler is given between two resets

----------------------------------------------------------------------------
(* Values *)

WorkflowIds == {"w1"}
SMIds       == {"w1"}          \* ids used when the state machine is called directly

WorkflowState == {"pending", "bootstrapping", "planning", "implementing",
                  "complete", "blocked"}

Undefined == "undefined"

\* a Map with no entries; a Map is a function whose DOMAIN is its key set
EmptyMap == [x \in {} |-> TRUE]

MapSet(m, k, v) == [x \in DOMAIN m \cup {k} |-> IF x = k THEN v ELSE m[x]]

MapDelete(m, k) == [x \in DOMAIN m \ {k} |-> m[x]]

\* an optional argument: << >> when it is not passed, <<v>> when it is
NoArg == << >>

MetaKeys == {"transitionedAt", "agentType", "reason", "failedAt", "retryAt"}

EmptyMeta == [k \in MetaKeys |-> Undefined]

MetaOf(pairs) == [k \in MetaKeys |-> IF k \in DOMAIN pairs THEN pairs[k] ELSE Undefined]

\* { ...old, ...new }
MergeMeta(old, new) == [k \in MetaKeys |-> IF new[k] # Undefined THEN new[k] ELSE old[k]]

\* metadata arguments used when transition() is called directly
TransitionMetas == {NoArg, <<MetaOf([reason |-> "test"])>>}

Range(s) == {s[i] : i \in 1..Len(s)}

\* Math.pow(2, n) for a natural number n
RECURSIVE pow2(_)
pow2(n) == IF n <= 0 THEN 1 ELSE 2 * pow2(n - 1)

NoResult == [op |-> "none"]

----------------------------------------------------------------------------
(* WorkflowStateMachine *)

VALID_TRANSITIONS ==
    [pending       |-> <<"bootstrapping", "blocked">>,
     bootstrapping |-> <<"planning", "blocked", "pending">>,
     planning      |-> <<"implementing", "blocked", "bootstrapping">>,
     implementing  |-> <<"complete", "blocked", "planning">>,
     complete      |-> << >>,
     blocked       |-> <<"pending", "bootstrapping", "planning", "implementing">>]

\* validateTransition that also accepts staying in the same stage
validateTransition_allowSelf(from, to) ==
    to \in Range(VALID_TRANSITIONS[from]) \cup {from}

\* validTargets.includes(to)
validateTransition(from, to) == to \in Range(VALID_TRANSITIONS[from])

\* the WorkflowStateData built by initializeWorkflow
NewStateData(initialState) ==
    [currentState  |-> initialState,
     previousState |-> Undefined,
     history       |-> << >>,
     metadata      |-> EmptyMeta]

\* initializeWorkflow: states.set(workflowId, stateData), unconditionally
initializeWorkflow(st, workflowId, initialState) ==
    MapSet(st, workflowId, NewStateData(initialState))

\* the StateTransition record pushed by transition()
NewTransition(fromState, toState, metadata) ==
    [from |-> fromState, to |-> toState, metadata |-> metadata]

\* transition() that lets a complete run be moved to blocked
transitionError_completeMayBlock(st, workflowId, toState) ==
    IF workflowId \notin DOMAIN st THEN "not found in state machine"
    ELSE IF /\ ~validateTransition(st[workflowId].currentState, toState)
            /\ ~(st[workflowId].currentState = "complete" /\ toState = "blocked")
         THEN "Invalid state transition"
         ELSE "ok"

\* transition(): the error it throws, or "ok"
transitionError(st, workflowId, toState) ==
    IF workflowId \notin DOMAIN st THEN "not found in state machine"
    ELSE IF ~validateTransition(st[workflowId].currentState, toState)
         THEN "Invalid state transition"
         ELSE "ok"

\* transitionData that records the stale previousState as the entry's source
transitionData_staleFrom(sd, toState, metadata) ==
    [currentState  |-> toState,
     previousState |-> sd.currentState,
     history       |-> Append(sd.history,
                              NewTransition(sd.previousState, toState, metadata)),
     metadata      |-> IF metadata # NoArg
                       THEN MergeMeta(sd.metadata, metadata[1])
                       ELSE sd.metadata]

\* transition(): the state data it leaves behind when it does not throw
transitionData(sd, toState, metadata) ==
    [currentState  |-> toState,
     previousState |-> sd.currentState,
     history       |-> Append(sd.history,
                              NewTransition(sd.currentState, toState, metadata)),
     metadata      |-> IF metadata # NoArg
                       THEN MergeMeta(sd.metadata, metadata[1])
                       ELSE sd.metadata]

\* transition that updates previousState before it validates the move
transition_updatesBeforeValidating(st, workflowId, toState, metadata) ==
    IF workflowId \notin DOMAIN st THEN st
    ELSE IF transitionError(st, workflowId, toState) = "ok"
    THEN MapSet(st, workflowId, transitionData(st[workflowId], toState, metadata))
    ELSE MapSet(st, workflowId,
                [st[workflowId] EXCEPT !.previousState = st[workflowId].currentState])

\* transition(): the states map after the call
transition(st, workflowId, toState, metadata) ==
    IF transitionError(st, workflowId, toState) = "ok"
    THEN MapSet(st, workflowId, transitionData(st[workflowId], toState, metadata))
    ELSE st

isBlocked(st, workflowId) ==
    workflowId \in DOMAIN st /\ st[workflowId].currentState = "blocked"

isTerminalState(st, workflowId) ==
    workflowId \in DOMAIN st /\ st[workflowId].currentState = "complete"

removeWorkflow(st, workflowId) == MapDelete(st, workflowId)

----------------------------------------------------------------------------
(* AgentSpawner *)

maxConcurrentAgents == 10

AgentTypes == {"bootstrapper", "planner", "implementer", "subagent"}

\* status of a child process: alive (with the last signal sent to it) or gone
Alive == {"running", "SIGTERM", "SIGKILL"}
Dead  == {"exit-0", "exit-failed"}

\* generateAgentId: type, workflow id and a timestamp-random suffix, for which
\* the n-th identifier generated stands
generateAgentId(config, n) == <<config.type, config.workflowId, n>>

\* the SpawnedAgent record kept in activeAgents
NewSpawnedAgent(agentId, config) == [id |-> agentId, type |-> config.type]

\* the concurrent limit checked with > instead of >=
spawnRejected_offByOne(agents) == Cardinality(DOMAIN agents) > maxConcurrentAgents

\* spawnAgent: does the concurrent limit reject the call
spawnRejected(agents) == Cardinality(DOMAIN agents) >= maxConcurrentAgents

\* process.kill(sig): the status of the process after the signal is sent
signalled(status, sig) == IF status \in Alive THEN sig ELSE status

\* killAgent(agentId): its return value
killAgentResult(agents, agentId) == agentId \in DOMAIN agents

\* killAgent(agentId): processes after process.kill('SIGTERM')
killAgentProcesses(agents, procs, agentId) ==
    IF agentId \in DOMAIN agents
    THEN [procs EXCEPT ![agentId] = signalled(@, "SIGTERM")]
    ELSE procs

\* killAgent that arms no force-kill timer
killAgentTimers_none(agents, timers, agentId) == timers

\* killAgent(agentId): the force-kill timers after setTimeout(..., 5000)
killAgentTimers(agents, timers, agentId) ==
    IF agentId \in DOMAIN agents THEN Append(timers, agentId) ELSE timers

\* killAgent applied to a list of agent ids, in order (shutdown's map)
RECURSIVE killAllProcesses(_, _, _)
killAllProcesses(agents, procs, ids) ==
    IF ids = << >> THEN procs
    ELSE killAllProcesses(agents, killAgentProcesses(agents, procs, Head(ids)), Tail(ids))

RECURSIVE killAllTimers(_, _, _)
killAllTimers(agents, timers, ids) ==
    IF ids = << >> THEN timers
    ELSE killAllTimers(agents, killAgentTimers(agents, timers, Head(ids)), Tail(ids))

\* Array.from(activeAgents.keys()): insertion order, which is generation order
RECURSIVE keysInOrder(_, _)
keysInOrder(agents, n) ==
    IF n = 0 THEN << >>
    ELSE LET rest == keysInOrder(agents, n - 1)
             here == {a \in DOMAIN agents : a[3] = n}
         IN  IF here = {} THEN rest ELSE Append(rest, CHOOSE a \in here : TRUE)

----------------------------------------------------------------------------
(* AgentFlowCoordinator: the synchronous stretches of its async methods.   *)
(* Each operator maps the state machine's map and the context map to what  *)
(* the stretch leaves behind and how it ends: it throws, it returns, or it *)
(* awaits notionService.updateWorkflowStatus(id, status) and continues at  *)
(* pc when that call settles.                                              *)

Throw(st, ctx, error) ==
    [states |-> st, contexts |-> ctx, kind |-> "throw", error |-> error,
     status |-> Undefined, pc |-> Undefined]

Return(st, ctx) ==
    [states |-> st, contexts |-> ctx, kind |-> "return", error |-> "ok",
     status |-> Undefined, pc |-> Undefined]

Await(st, ctx, status, pc) ==
    [states |-> st, contexts |-> ctx, kind |-> "await", error |-> "ok",
     status |-> status, pc |-> pc]

\* the WorkflowContext built by startWorkflow
NewContext ==
    [currentStage      |-> "pending",
     bootstrapperOutput |-> NoArg,
     implementerOutput  |-> NoArg,
     lastFailure        |-> NoArg]

\* const context = get(id); if (context) { context.currentStage = stage; ... }
setStage(ctx, workflowId, stage) ==
    IF workflowId \in DOMAIN ctx
    THEN [ctx EXCEPT ![workflowId].currentStage = stage]
    ELSE ctx

OutputFields == {"codebaseAnalysis", "workflowSpec", "suggestedApproach",
                 "estimatedComplexity"}

\* a field of a reported output is a truthy value or is missing
Truthy == "value"

validateBootstrapperOutput(output) ==
    /\ output["codebaseAnalysis"] = Truthy
    /\ output["workflowSpec"] = Truthy
    /\ output["suggestedApproach"] = Truthy
    /\ output["estimatedComplexity"] = Truthy

\* startWorkflow that spawns the worker right after persisting pending
startWorkflow_spawnsFirst(st, ctx, workflowId) ==
    Await(initializeWorkflow(st, workflowId, "pending"),
          MapSet(ctx, workflowId, NewContext),
          "pending", "spawnBootstrapper")

\* startWorkflow up to its first await
startWorkflow(st, ctx, workflowId) ==
    Await(initializeWorkflow(st, workflowId, "pending"),
          MapSet(ctx, workflowId, NewContext),
          "pending", "afterPending")

\* transitionToBootstrapping that ignores skipTransition
transitionToBootstrapping_alwaysTransitions(st, ctx, workflowId, skipTransition) ==
    LET err == transitionError(st, workflowId, "bootstrapping") IN
    IF err # "ok" THEN Throw(st, ctx, err)
    ELSE Await(transition(st, workflowId, "bootstrapping",
                          <<MetaOf([transitionedAt |-> "ts"])>>),
               setStage(ctx, workflowId, "bootstrapping"),
               "bootstrapping", "spawnBootstrapper")

\* transitionToBootstrapping up to its await
transitionToBootstrapping(st, ctx, workflowId, skipTransition) ==
    LET err == IF skipTransition THEN "ok"
               ELSE transitionError(st, workflowId, "bootstrapping")
        st2 == IF skipTransition THEN st
               ELSE transition(st, workflowId, "bootstrapping",
                               <<MetaOf([transitionedAt |-> "ts"])>>)
    IN  IF err # "ok" THEN Throw(st, ctx, err)
        ELSE Await(st2, setStage(ctx, workflowId, "bootstrapping"),
                   "bootstrapping", "spawnBootstrapper")

\* transitionToPlanning that stops at planning, as if a planner were awaited
transitionToPlanning_stops(st, ctx, workflowId) ==
    LET err == transitionError(st, workflowId, "planning") IN
    IF err # "ok" THEN Throw(st, ctx, err)
    ELSE Await(transition(st, workflowId, "planning",
                          <<MetaOf([transitionedAt |-> "ts"])>>),
               setStage(ctx, workflowId, "planning"),
               "planning", "done")

\* transitionToPlanning up to its await
transitionToPlanning(st, ctx, workflowId) ==
    LET err == transitionError(st, workflowId, "planning") IN
    IF err # "ok" THEN Throw(st, ctx, err)
    ELSE Await(transition(st, workflowId, "planning",
                          <<MetaOf([transitionedAt |-> "ts"])>>),
               setStage(ctx, workflowId, "planning"),
               "planning", "afterPlanning")

\* transitionToImplementing up to its await
transitionToImplementing(st, ctx, workflowId) ==
    LET err == transitionError(st, workflowId, "implementing") IN
    IF err # "ok" THEN Throw(st, ctx, err)
    ELSE Await(transition(st, workflowId, "implementing",
                          <<MetaOf([transitionedAt |-> "ts"])>>),
               setStage(ctx, workflowId, "implementing"),
               "implementing", "spawnImplementer")

\* transitionToComplete that updates the context but not the state machine
transitionToComplete_contextOnly(st, ctx, workflowId) ==
    Await(st, setStage(ctx, workflowId, "complete"), "complete", "done")

\* transitionToComplete up to its await
transitionToComplete(st, ctx, workflowId) ==
    LET err == transitionError(st, workflowId, "complete") IN
    IF err # "ok" THEN Throw(st, ctx, err)
    ELSE Await(transition(st, workflowId, "complete",
                          <<MetaOf([transitionedAt |-> "ts"])>>),
               setStage(ctx, workflowId, "complete"),
               "complete", "done")

\* handleAgentFailure up to its await
handleAgentFailure(st, ctx, workflowId, agentType, reason) ==
    LET err == transitionError(st, workflowId, "blocked") IN
    IF err # "ok" THEN Throw(st, ctx, err)
    ELSE Await(transition(st, workflowId, "blocked",
                          <<MetaOf([agentType |-> agentType, reason |-> reason,
                                    failedAt |-> "ts"])>>),
               IF workflowId \in DOMAIN ctx
               THEN [ctx EXCEPT ![workflowId].currentStage = "blocked",
                                ![workflowId].lastFailure =
                                    <<[agentType |-> agentType, reason |-> reason]>>]
               ELSE ctx,
               "blocked", "done")

\* handleBootstrapperCompletion that stores the output before validating it
handleBootstrapperCompletion_storesFirst(st, ctx, workflowId, output) ==
    LET ctx2 == IF workflowId \in DOMAIN ctx
                THEN [ctx EXCEPT ![workflowId].bootstrapperOutput = <<output>>]
                ELSE ctx
    IN  IF ~validateBootstrapperOutput(output)
        THEN handleAgentFailure(st, ctx2, workflowId, "bootstrapper",
                                "Invalid bootstrapper output")
        ELSE transitionToPlanning(st, ctx2, workflowId)

\* handleBootstrapperCompletion up to its first await
handleBootstrapperCompletion(st, ctx, workflowId, output) ==
    IF ~validateBootstrapperOutput(output)
    THEN handleAgentFailure(st, ctx, workflowId, "bootstrapper",
                            "Invalid bootstrapper output")
    ELSE transitionToPlanning(st,
             IF workflowId \in DOMAIN ctx
             THEN [ctx EXCEPT ![workflowId].bootstrapperOutput = <<output>>]
             ELSE ctx,
             workflowId)

\* handleImplementerCompletion that does not look at testsPassed
handleImplementerCompletion_ignoresTests(st, ctx, workflowId, output) ==
    transitionToComplete(st,
        IF workflowId \in DOMAIN ctx
        THEN [ctx EXCEPT ![workflowId].implementerOutput = <<output>>]
        ELSE ctx,
        workflowId)

\* handleImplementerCompletion up to its first await
handleImplementerCompletion(st, ctx, workflowId, output) ==
    LET ctx2 == IF workflowId \in DOMAIN ctx
                THEN [ctx EXCEPT ![workflowId].implementerOutput = <<output>>]
                ELSE ctx
    IN  IF ~output.testsPassed
        THEN handleAgentFailure(st, ctx2, workflowId, "implementer", "Tests failed")
        ELSE transitionToComplete(st, ctx2, workflowId)

\* retryWorkflow without the isBlocked check
retryWorkflow_noBlockedCheck(st, ctx, workflowId, fromStage) ==
    IF workflowId \notin DOMAIN ctx THEN Throw(st, ctx, "not found")
    ELSE IF workflowId \notin DOMAIN st THEN Throw(st, ctx, "is not blocked")
    ELSE
      LET currentState == st[workflowId].currentState
          err == IF currentState # fromStage
                 THEN transitionError(st, workflowId, fromStage) ELSE "ok"
          st2 == IF currentState # fromStage
                 THEN transition(st, workflowId, fromStage,
                                 <<MetaOf([retryAt |-> "ts"])>>)
                 ELSE st
      IN  IF err # "ok" THEN Throw(st, ctx, err)
          ELSE CASE fromStage = "bootstrapping" ->
                        transitionToBootstrapping(st2, ctx, workflowId, TRUE)
                 [] fromStage = "planning" ->
                        transitionToPlanning(st2, ctx, workflowId)
                 [] fromStage = "implementing" ->
                        transitionToImplementing(st2, ctx, workflowId)
                 [] OTHER -> Throw(st2, ctx, "Cannot retry from stage")

\* retryWorkflow up to its first await
retryWorkflow(st, ctx, workflowId, fromStage) ==
    IF workflowId \notin DOMAIN ctx THEN Throw(st, ctx, "not found")
    ELSE IF ~isBlocked(st, workflowId) THEN Throw(st, ctx, "is not blocked")
    ELSE
      LET currentState == st[workflowId].currentState
          err == IF currentState # fromStage
                 THEN transitionError(st, workflowId, fromStage) ELSE "ok"
          st2 == IF currentState # fromStage
                 THEN transition(st, workflowId, fromStage,
                                 <<MetaOf([retryAt |-> "ts"])>>)
                 ELSE st
      IN  IF err # "ok" THEN Throw(st, ctx, err)
          ELSE CASE fromStage = "bootstrapping" ->
                        transitionToBootstrapping(st2, ctx, workflowId, TRUE)
                 [] fromStage = "planning" ->
                        transitionToPlanning(st2, ctx, workflowId)
                 [] fromStage = "implementing" ->
                        transitionToImplementing(st2, ctx, workflowId)
                 [] OTHER -> Throw(st2, ctx, "Cannot retry from stage")

\* cleanupWorkflow that forgets the context but not the state machine's run
cleanupWorkflow_contextOnly(st, ctx, workflowId) ==
    [states |-> st, contexts |-> MapDelete(ctx, workflowId)]

\* cleanupWorkflow(workflowId): workflowContexts.delete, then
\* stateMachine.removeWorkflow
cleanupWorkflow(st, ctx, workflowId) ==
    [states |-> removeWorkflow(st, workflowId),
     contexts |-> MapDelete(ctx, workflowId)]

\* getActiveWorkflows(): the ids of the contexts whose currentStage is neither
\* complete nor blocked
getActiveWorkflows(ctx) ==
    {workflowId \in DOMAIN ctx : /\ ctx[workflowId].currentStage # "complete"
                                 /\ ctx[workflowId].currentStage # "blocked"}

\* the agent configuration each stage handler passes to spawnAgent
BootstrapperConfig(workflowId) == [type |-> "bootstrapper", workflowId |-> workflowId]

ImplementerConfig(workflowId) == [type |-> "implementer", workflowId |-> workflowId]

----------------------------------------------------------------------------
(* NotionCRUDService.withRetry: the wrapper around every call of the Notion *)
(* client.  A call in progress is at `await operation()' or at the await of *)
(* the backoff timer.                                                       *)

\* the defaults of withRetry's parameters; no caller passes others
withRetryMaxRetries == 3

withRetryBaseDelay == 1000

NoRetryTask ==
    [pc |-> "idle", operation |-> Undefined, attempt |-> 0, invoked |-> 0,
     delay |-> 0, waited |-> << >>, lastError |-> NoArg]

\* withRetry(operation) up to its first await: the loop is entered with
\* attempt 0 and the operation is invoked
withRetry(operation) ==
    [NoRetryTask EXCEPT !.pc = "awaitOperation", !.operation = operation,
                        !.invoked = 1]

\* how a stretch of withRetry ends when it throws `error'
RetryThrows(t, error) == [t EXCEPT !.pc = "thrown", !.lastError = <<error>>]

\* the loop's next iteration after the catch block fell through: attempt++,
\* then either the operation is invoked again or the loop is left and
\* lastError is thrown
nextIteration(t, error) ==
    IF t.attempt + 1 < withRetryMaxRetries
    THEN [t EXCEPT !.pc = "awaitOperation", !.attempt = t.attempt + 1,
                   !.invoked = t.invoked + 1, !.lastError = <<error>>]
    ELSE RetryThrows([t EXCEPT !.attempt = t.attempt + 1], error)

\* a catch block that backs off after any error
operationRejected_retriesAnyError(t, error) ==
    IF t.attempt < withRetryMaxRetries - 1
    THEN [t EXCEPT !.pc = "awaitDelay", !.lastError = <<error>>,
                   !.delay = withRetryBaseDelay * pow2(t.attempt)]
    ELSE RetryThrows(t, error)

\* the catch block: the awaited operation rejected with `error'
operationRejected(t, error) ==
    LET isRateLimitError == error.code = "rate_limited" IN
    IF t.attempt < withRetryMaxRetries - 1 /\ isRateLimitError
    THEN [t EXCEPT !.pc = "awaitDelay", !.lastError = <<error>>,
                   !.delay = withRetryBaseDelay * pow2(t.attempt)]
    ELSE IF ~isRateLimitError
    THEN RetryThrows(t, error)
    ELSE nextIteration(t, error)

\* the backoff timer ran out: attempt++ and the operation is invoked again
delayElapsed(t) ==
    [t EXCEPT !.pc = "awaitOperation", !.attempt = t.attempt + 1,
              !.invoked = t.invoked + 1, !.delay = 0,
              !.waited = Append(t.waited, t.delay)]

----------------------------------------------------------------------------
(* Initial state: the objects right after construction *)

Init ==
    /\ states = EmptyMap
    /\ result = NoResult
    /\ workflowContexts = EmptyMap
    /\ notion = [w \in WorkflowIds |-> Undefined]
    /\ tasks = [w \in WorkflowIds |-> << >>]
    /\ activeAgents = EmptyMap
    /\ nextAgentId = 0
    /\ timeoutQueue = << >>
    /\ graceQueue = << >>
    /\ processes = EmptyMap
    /\ nCalls = 0
    /\ nEvents = 0
    /\ nOps = 0
    /\ observed = EmptyMap
    /\ errorCounts = EmptyMap
    /\ retried = EmptyMap
    /\ streak = 0
    /\ retryTask = NoRetryTask
    /\ clock = 0
    /\ handles = EmptyMap
    /\ children = EmptyMap
    /\ dispatched = << >>

----------------------------------------------------------------------------
(* Direct calls of the state machine's public methods *)

SMInitialize(workflowId, initialState) ==
    /\ states' = initializeWorkflow(states, workflowId, initialState)
    /\ observed' = MapSet(observed, workflowId,
                          [initial |-> initialState, succeeded |-> 0])
    /\ result' = [op |-> "initializeWorkflow", id |-> workflowId,
                  outcome |-> "ok", initial |-> initialState]
    /\ UNCHANGED <<coordVars, spawnVars, ehVars, svcVars>>

SMValidate(from, to) ==
    /\ result' = [op |-> "validateTransition", from |-> from, to |-> to,
                  outcome |-> validateTransition(from, to)]
    /\ UNCHANGED <<smVars, coordVars, spawnVars, ehVars, svcVars>>

SMTransition(workflowId, toState, metadata) ==
    /\ transitionError(states, workflowId, toState) = "ok"
         => Len(states[workflowId].history) < MaxHistory
    /\ states' = transition(states, workflowId, toState, metadata)
    /\ observed' = IF transitionError(states, workflowId, toState) = "ok"
                   THEN [observed EXCEPT ![workflowId].succeeded = @ + 1]
                   ELSE observed
    /\ result' = [op |-> "transition", id |-> workflowId, to |-> toState,
                  outcome |-> transitionError(states, workflowId, toState)]
    /\ UNCHANGED <<coordVars, spawnVars, ehVars, svcVars>>

SMRemove(workflowId) ==
    /\ states' = removeWorkflow(states, workflowId)
    /\ observed' = MapDelete(observed, workflowId)
    /\ result' = [op |-> "removeWorkflow", id |-> workflowId,
                  outcome |-> (workflowId \in DOMAIN states)]
    /\ UNCHANGED <<coordVars, spawnVars, ehVars, svcVars>>

NextSM ==
    \/ \E w \in SMIds, s \in WorkflowState : SMInitialize(w, s)
    \/ \E f \in WorkflowState, t \in WorkflowState : SMValidate(f, t)
    \/ \E w \in SMIds, t \in WorkflowState, m \in TransitionMetas : SMTransition(w, t, m)
    \/ \E w \in SMIds : SMRemove(w)

SpecSM == Init /\ [][NextSM]_vars

----------------------------------------------------------------------------
(* AgentSpawner: calls, process events and timers *)

Budget == nCalls + nEvents < MaxEvents

\* spawnAgent past the concurrent limit: create the process, track the agent,
\* set up the process handlers (which arms the 30 minute timer)
SpawnEffect(config) ==
    LET agentId == generateAgentId(config, nextAgentId + 1) IN
    /\ nextAgentId < MaxSpawns
    /\ nextAgentId' = nextAgentId + 1
    /\ processes' = MapSet(processes, agentId, "running")
    /\ activeAgents' = MapSet(activeAgents, agentId, NewSpawnedAgent(agentId, config))
    /\ timeoutQueue' = Append(timeoutQueue, agentId)
    /\ UNCHANGED <<graceQueue, nCalls, nEvents>>

\* spawnAgent that creates the child process before checking the limit
SpawnAgent_launchesFirst(config) ==
    /\ \/ /\ spawnRejected(activeAgents)
          /\ nextAgentId < MaxSpawns
          /\ nextAgentId' = nextAgentId + 1
          /\ processes' = MapSet(processes,
                                 generateAgentId(config, nextAgentId + 1), "running")
          /\ result' = [op |-> "spawnAgent", outcome |-> "Max concurrent agents reached"]
          /\ UNCHANGED <<activeAgents, timeoutQueue, graceQueue, nCalls, nEvents>>
       \/ /\ ~spawnRejected(activeAgents)
          /\ SpawnEffect(config)
          /\ result' = [op |-> "spawnAgent", outcome |-> "ok",
                        agentId |-> generateAgentId(config, nextAgentId + 1)]
    /\ UNCHANGED <<smVars, coordVars, ehVars, svcVars>>

\* spawnAgent(config)
SpawnAgent(config) ==
    /\ \/ /\ spawnRejected(activeAgents)
          /\ result' = [op |-> "spawnAgent", outcome |-> "Max concurrent agents reached"]
          /\ UNCHANGED spawnVars
       \/ /\ ~spawnRejected(activeAgents)
          /\ SpawnEffect(config)
          /\ result' = [op |-> "spawnAgent", outcome |-> "ok",
                        agentId |-> generateAgentId(config, nextAgentId + 1)]
    /\ UNCHANGED <<smVars, coordVars, ehVars, svcVars>>

\* killAgent that deletes the handle itself once the signal is sent
KillAgent_untracks(agentId) ==
    /\ Budget
    /\ nCalls' = nCalls + 1
    /\ processes' = killAgentProcesses(activeAgents, processes, agentId)
    /\ graceQueue' = killAgentTimers(activeAgents, graceQueue, agentId)
    /\ activeAgents' = MapDelete(activeAgents, agentId)
    /\ result' = [op |-> "killAgent", agentId |-> agentId,
                  outcome |-> killAgentResult(activeAgents, agentId)]
    /\ UNCHANGED <<nextAgentId, timeoutQueue, nEvents, smVars, coordVars, ehVars, svcVars>>

\* killAgent(agentId)
KillAgent(agentId) ==
    /\ Budget
    /\ nCalls' = nCalls + 1
    /\ processes' = killAgentProcesses(activeAgents, processes, agentId)
    /\ graceQueue' = killAgentTimers(activeAgents, graceQueue, agentId)
    /\ result' = [op |-> "killAgent", agentId |-> agentId,
                  outcome |-> killAgentResult(activeAgents, agentId)]
    /\ UNCHANGED <<activeAgents, nextAgentId, timeoutQueue, nEvents, smVars, coordVars, ehVars, svcVars>>

Shutdown ==
    LET ids == keysInOrder(activeAgents, nextAgentId) IN
    /\ Budget
    /\ nCalls' = nCalls + 1
    /\ processes' = killAllProcesses(activeAgents, processes, ids)
    /\ graceQueue' = killAllTimers(activeAgents, graceQueue, ids)
    /\ result' = [op |-> "shutdown", outcome |-> "ok", killed |-> ids]
    /\ UNCHANGED <<activeAgents, nextAgentId, timeoutQueue, nEvents, smVars, coordVars, ehVars, svcVars>>

\* the 'exit' event of a child process: handleAgentExit
AgentExit(agentId, status) ==
    /\ Budget
    /\ processes[agentId] \in Alive
    /\ status = "exit-0" => processes[agentId] # "SIGKILL"
    /\ nEvents' = nEvents + 1
    /\ processes' = [processes EXCEPT ![agentId] = status]
    /\ activeAgents' = MapDelete(activeAgents, agentId)
    /\ UNCHANGED <<nextAgentId, timeoutQueue, graceQueue, nCalls, result,
                   smVars, coordVars, ehVars, svcVars>>

\* the 'error' event of a child process: handleAgentError.  The process may
\* never have started (gone) or may still be running (a failed kill).
AgentError(agentId, gone) ==
    /\ Budget
    /\ processes[agentId] \in Alive
    /\ nEvents' = nEvents + 1
    /\ processes' = IF gone THEN [processes EXCEPT ![agentId] = "exit-failed"]
                    ELSE processes
    /\ activeAgents' = MapDelete(activeAgents, agentId)
    /\ UNCHANGED <<nextAgentId, timeoutQueue, graceQueue, nCalls, result,
                   smVars, coordVars, ehVars, svcVars>>

\* the callback of the 30 minute timer armed by setupProcessHandlers
TimeoutCallback ==
    /\ timeoutQueue # << >>
    /\ LET agentId == Head(timeoutQueue) IN
       /\ processes' = killAgentProcesses(activeAgents, processes, agentId)
       /\ graceQueue' = killAgentTimers(activeAgents, graceQueue, agentId)
    /\ timeoutQueue' = Tail(timeoutQueue)
    /\ UNCHANGED <<activeAgents, nextAgentId, nCalls, result, smVars, coordVars, ehVars, svcVars>>

\* the 30 minute timer armed by setupProcessHandlers fires
TimeoutFire ==
    /\ Budget
    /\ TimeoutCallback
    /\ nEvents' = nEvents + 1

\* the force-kill callback without its activeAgents.has(agentId) check
GraceCallback_unconditional ==
    /\ graceQueue # << >>
    /\ LET agentId == Head(graceQueue) IN
       processes' = [processes EXCEPT ![agentId] = signalled(@, "SIGKILL")]
    /\ graceQueue' = Tail(graceQueue)
    /\ UNCHANGED <<activeAgents, nextAgentId, timeoutQueue, nCalls, result,
                   smVars, coordVars, ehVars, svcVars>>

\* the callback of the 5 second timer armed by killAgent
GraceCallback ==
    /\ graceQueue # << >>
    /\ LET agentId == Head(graceQueue) IN
       processes' = IF agentId \in DOMAIN activeAgents
                    THEN [processes EXCEPT ![agentId] = signalled(@, "SIGKILL")]
                    ELSE processes
    /\ graceQueue' = Tail(graceQueue)
    /\ UNCHANGED <<activeAgents, nextAgentId, timeoutQueue, nCalls, result,
                   smVars, coordVars, ehVars, svcVars>>

\* the 5 second timer armed by killAgent fires
GraceFire ==
    /\ Budget
    /\ GraceCallback
    /\ nEvents' = nEvents + 1

ProcessEvents ==
    \/ \E a \in DOMAIN processes, st \in Dead : AgentExit(a, st)
    \/ \E a \in DOMAIN processes, gone \in BOOLEAN : AgentError(a, gone)
    \/ TimeoutFire
    \/ GraceFire

\* configurations passed when the spawner is called directly
SpawnerConfigs == {[type |-> "subagent", workflowId |-> "w1"]}

KillTargets == DOMAIN processes \cup {<<"subagent", "non-existent", 0>>}

NextSpawner ==
    \/ \E c \in SpawnerConfigs : SpawnAgent(c)
    \/ \E a \in KillTargets : KillAgent(a)
    \/ Shutdown
    \/ ProcessEvents

SpecSpawner == Init /\ [][NextSpawner]_vars

\* the 'error' event of a child process whose 'exit' was already delivered:
\* handleAgentError logs and deletes the identifier once more
AgentErrorAfterExit(agentId) ==
    /\ Budget
    /\ processes[agentId] \in Dead
    /\ nEvents' = nEvents + 1
    /\ activeAgents' = MapDelete(activeAgents, agentId)
    /\ UNCHANGED <<processes, nextAgentId, timeoutQueue, graceQueue, nCalls, result,
                   smVars, coordVars, ehVars, svcVars>>

NextObservers ==
    \/ NextSpawner
    \/ \E a \in DOMAIN processes : AgentErrorAfterExit(a)

\* the spawner with both observers of a process called, in either order
SpecObservers == Init /\ [][NextObservers]_vars

----------------------------------------------------------------------------
(* AgentSpawner with every armed timer left to run out.  The event loop    *)
(* runs the callback of each armed timer, and a process that was sent      *)
(* SIGKILL is ended by the operating system, upon which its 'exit' event   *)
(* is delivered; whether a process exits by itself, or after SIGTERM, and  *)
(* whether it raises 'error', is up to the process.                        *)

\* the 30 minute timer of the oldest agent runs out
TimeoutElapses == TimeoutCallback /\ UNCHANGED nEvents

\* the 5 second timer armed first runs out
GraceElapses == GraceCallback /\ UNCHANGED nEvents

\* the 'exit' event of a process that was sent SIGKILL: handleAgentExit
KilledExits(agentId) ==
    /\ processes[agentId] = "SIGKILL"
    /\ processes' = [processes EXCEPT ![agentId] = "exit-failed"]
    /\ activeAgents' = MapDelete(activeAgents, agentId)
    /\ UNCHANGED <<nextAgentId, timeoutQueue, graceQueue, nCalls, nEvents, result,
                   smVars, coordVars, ehVars, svcVars>>

KilledProcessExits == \E a \in DOMAIN processes : KilledExits(a)

NextSpawnerLive ==
    \/ \E c \in SpawnerConfigs : nextAgentId < MaxLive /\ SpawnAgent(c)
    \/ \E a \in KillTargets : KillAgent(a)
    \/ Shutdown
    \/ \E a \in DOMAIN processes, st \in Dead : AgentExit(a, st)
    \/ \E a \in DOMAIN processes, gone \in BOOLEAN : AgentError(a, gone)
    \/ TimeoutElapses
    \/ GraceElapses
    \/ KilledProcessExits

FairSpecSpawner ==
    /\ Init /\ [][NextSpawnerLive]_vars
    /\ WF_vars(TimeoutElapses)
    /\ WF_vars(GraceElapses)
    /\ WF_vars(KilledProcessExits)

----------------------------------------------------------------------------
(* AgentSpawner: the identifiers generateAgentId builds.  Above, the n-th   *)
(* identifier generated stands for itself; here an identifier is built the  *)
(* way the code builds it, from the type, the workflow id, Date.now() and   *)
(* characters of Math.random().toString(36), and activeAgents is keyed by   *)
(* the result.                                                              *)

\* Math.random().toString(36) without its leading "0.": the base-36 digits
\* of 0.5, of 0.25, and of two numbers with a long expansion
RandomDigits ==
    {<<"i">>, <<"9">>,
     <<"4", "f", "z", "y", "o", "8", "2", "m", "v", "y", "r">>,
     <<"k", "2", "7", "q", "x", "3", "n", "0", "c", "b", "a">>}

\* text.substring(7)
substring7(text) == SubSeq(text, 8, Len(text))

\* Math.random().toString(36).substring(7)
randomSuffix(digits) == substring7(<<"0", ".">> \o digits)

\* `${config.type}-${config.workflowId}-${timestamp}-${random}`, kept as its
\* four parts
generateAgentIdAt(config, timestamp, digits) ==
    <<config.type, config.workflowId, timestamp, randomSuffix(digits)>>

\* spawnAgent(config): generate the identifier, check the concurrent limit,
\* create the process, activeAgents.set(agentId, spawnedAgent)
SpawnAgentAt(config, digits) ==
    LET agentId == generateAgentIdAt(config, clock, digits)
        pid     == Cardinality(DOMAIN children) + 1
    IN  /\ pid <= MaxIdSpawns
        /\ IF spawnRejected(handles)
           THEN /\ result' = [op |-> "spawnAgent", outcome |-> "Max concurrent agents reached"]
                /\ UNCHANGED <<handles, children>>
           ELSE /\ children' = MapSet(children, pid,
                                       [agentId |-> agentId, running |-> TRUE])
                /\ handles' = MapSet(handles, agentId,
                                     [id |-> agentId, type |-> config.type,
                                      process |-> pid])
                /\ result' = [op |-> "spawnAgent", outcome |-> agentId]
        /\ UNCHANGED <<clock, retryTask, smVars, coordVars, spawnVars, ehVars, hookVars>>

\* a child process exits: its 'exit' handler runs handleAgentExit with the
\* identifier the process was spawned under, which deletes that key
ChildExits(pid) ==
    /\ pid \in DOMAIN children /\ children[pid].running
    /\ children' = [children EXCEPT ![pid].running = FALSE]
    /\ handles' = MapDelete(handles, children[pid].agentId)
    /\ UNCHANGED <<clock, result, retryTask, smVars, coordVars, spawnVars, ehVars, hookVars>>

\* a millisecond passes
ClockTicks ==
    /\ clock < MaxClock
    /\ clock' = clock + 1
    /\ UNCHANGED <<handles, children, result, retryTask, smVars, coordVars,
                   spawnVars, ehVars, hookVars>>

IdConfigs == {[type |-> "bootstrapper", workflowId |-> "w1"],
              [type |-> "implementer", workflowId |-> "w1"]}

NextSpawnIds ==
    \/ \E c \in IdConfigs, d \in RandomDigits : SpawnAgentAt(c, d)
    \/ \E pid \in DOMAIN children : ChildExits(pid)
    \/ ClockTicks

SpecSpawnIds == Init /\ [][NextSpawnIds]_vars

----------------------------------------------------------------------------
(* AgentFlowCoordinator: its public operations, run stretch by stretch *)

\* outputs a bootstrapper may report: complete, empty, or one field missing
BootstrapperOutputs ==
    {o \in [OutputFields -> {Truthy, Undefined}] :
        Cardinality({f \in OutputFields : o[f] = Undefined}) \in {0, 1, 4}}

ImplementerOutputs == {[testsPassed |-> b] : b \in BOOLEAN}

Idle(workflowId) == tasks[workflowId] = << >>

\* a call of a coordinator operation: its name and what its second argument
\* was ("undefined" when it has none)
Call(op, arg) == [op |-> op, arg |-> arg]

\* what the caller of a coordinator operation gets back: "ok" or the error
Returned(call, workflowId, outcome) ==
    [op |-> call.op, id |-> workflowId, arg |-> call.arg, outcome |-> outcome]

\* what a stretch that ended with `out' leaves behind for operation op
Finish(call, workflowId, out) ==
    /\ states' = out.states
    /\ workflowContexts' = out.contexts
    /\ IF out.kind = "await"
       THEN /\ tasks' = [tasks EXCEPT ![workflowId] =
                            <<[call |-> call, pc |-> out.pc, status |-> out.status]>>]
            /\ UNCHANGED result
       ELSE /\ tasks' = [tasks EXCEPT ![workflowId] = << >>]
            /\ result' = Returned(call, workflowId, out.error)

\* what an observer sees of workflow w when an operation is called for it:
\* its stage and history, its context, its persisted status and the workers
\* created for it so far
Snapshot(w) ==
    [stage   |-> IF w \in DOMAIN states THEN states[w].currentState ELSE "untracked",
     history |-> IF w \in DOMAIN states THEN states[w].history ELSE << >>,
     context |-> IF w \in DOMAIN workflowContexts THEN <<workflowContexts[w]>> ELSE << >>,
     status  |-> notion[w],
     workers |-> {a \in DOMAIN processes : a[2] = w}]

\* a caller invokes an operation on an idle workflow; `out' is how the
\* operation's first stretch ends.  The suspended operation carries the
\* snapshot taken at the call, for the properties that relate a call's
\* outcome to the state it was made in.
Invoke(call, workflowId, out) ==
    /\ Idle(workflowId) /\ nOps < MaxOps
    /\ nOps' = nOps + 1
    /\ Finish([op |-> call.op, arg |-> call.arg, before |-> Snapshot(workflowId)],
              workflowId, out)
    /\ UNCHANGED <<notion, observed, spawnVars, ehVars, svcVars>>

StartWorkflow(workflowId) ==
    Invoke(Call("startWorkflow", Undefined), workflowId,
           startWorkflow(states, workflowContexts, workflowId))

HandleBootstrapperCompletion(workflowId, output) ==
    Invoke(Call("handleBootstrapperCompletion",
                IF validateBootstrapperOutput(output) THEN "valid" ELSE "invalid"),
           workflowId,
           handleBootstrapperCompletion(states, workflowContexts, workflowId, output))

HandleImplementerCompletion(workflowId, output) ==
    Invoke(Call("handleImplementerCompletion",
                IF output.testsPassed THEN "passed" ELSE "failed"),
           workflowId,
           handleImplementerCompletion(states, workflowContexts, workflowId, output))

RetryWorkflow(workflowId, fromStage) ==
    Invoke(Call("retryWorkflow", fromStage), workflowId,
           retryWorkflow(states, workflowContexts, workflowId, fromStage))

\* the awaited updateWorkflowStatus call rejects: the operation throws
PersistFails(workflowId) ==
    /\ ~Idle(workflowId)
    /\ tasks' = [tasks EXCEPT ![workflowId] = << >>]
    /\ result' = Returned(tasks[workflowId][1].call, workflowId,
                          "updateWorkflowStatus failed")
    /\ UNCHANGED <<states, workflowContexts, notion, nOps, observed, spawnVars, ehVars, svcVars>>

\* the stage handler's spawnAgent call, the last statement of the operation
SpawnAndReturn(call, workflowId, config) ==
    /\ tasks' = [tasks EXCEPT ![workflowId] = << >>]
    /\ \/ /\ spawnRejected(activeAgents)
          /\ result' = Returned(call, workflowId, "Max concurrent agents reached")
          /\ UNCHANGED spawnVars
       \/ /\ ~spawnRejected(activeAgents)
          /\ SpawnEffect(config)
          /\ result' = Returned(call, workflowId, "ok")
    /\ UNCHANGED <<states, workflowContexts>>

\* the awaited updateWorkflowStatus call resolves: the status is persisted and
\* the operation runs on to its next await, its return or its throw
PersistSucceeds(workflowId) ==
    /\ ~Idle(workflowId)
    /\ LET t == tasks[workflowId][1] IN
       /\ notion' = [notion EXCEPT ![workflowId] = t.status]
       /\ CASE t.pc = "afterPending" ->
                 /\ Finish(t.call, workflowId,
                           transitionToBootstrapping(states, workflowContexts,
                                                     workflowId, FALSE))
                 /\ UNCHANGED spawnVars
            [] t.pc = "afterPlanning" ->
                 /\ Finish(t.call, workflowId,
                           transitionToImplementing(states, workflowContexts,
                                                    workflowId))
                 /\ UNCHANGED spawnVars
            [] t.pc = "spawnBootstrapper" ->
                 SpawnAndReturn(t.call, workflowId, BootstrapperConfig(workflowId))
            [] t.pc = "spawnImplementer" ->
                 SpawnAndReturn(t.call, workflowId, ImplementerConfig(workflowId))
            [] t.pc = "done" ->
                 /\ Finish(t.call, workflowId, Return(states, workflowContexts))
                 /\ UNCHANGED spawnVars
    /\ UNCHANGED <<nOps, observed, ehVars, svcVars>>

CoordinatorSteps ==
    \/ \E w \in WorkflowIds : PersistSucceeds(w)
    \/ \E w \in WorkflowIds : PersistFails(w)

NextCoord ==
    \/ \E w \in WorkflowIds : StartWorkflow(w)
    \/ \E w \in WorkflowIds, o \in BootstrapperOutputs :
           HandleBootstrapperCompletion(w, o)
    \/ \E w \in WorkflowIds, o \in ImplementerOutputs :
           HandleImplementerCompletion(w, o)
    \/ \E w \in WorkflowIds, s \in WorkflowState : RetryWorkflow(w, s)
    \/ CoordinatorSteps
    \/ ProcessEvents

SpecCoord == Init /\ [][NextCoord]_vars

\* cleanupWorkflow is synchronous and may be called at any time, also while an
\* operation of the same workflow is suspended at an await
CleanupWorkflow(workflowId) ==
    /\ nOps < MaxOps
    /\ nOps' = nOps + 1
    /\ states' = cleanupWorkflow(states, workflowContexts, workflowId).states
    /\ workflowContexts' = cleanupWorkflow(states, workflowContexts, workflowId).contexts
    /\ result' = [op |-> "cleanupWorkflow", id |-> workflowId, arg |-> Undefined,
                  outcome |-> "ok"]
    /\ UNCHANGED <<tasks, notion, observed, spawnVars, ehVars, svcVars>>

NextCleanup ==
    \/ NextCoord
    \/ \E w \in WorkflowIds : CleanupWorkflow(w)

\* the coordinator with runs being abandoned by their callers
SpecCleanup == Init /\ [][NextCleanup]_vars

----------------------------------------------------------------------------
(* AgentFlowCoordinator with a supervisor that fills up.  The coordinator's *)
(* AgentSpawner is private, so its handles all come from stage handlers:    *)
(* callers start runs (startWorkflow on an id that is already tracked       *)
(* starts it over with a new bootstrapper) until other operations are       *)
(* called.  The workers keep running: no process event is delivered.        *)

\* startWorkflow called before any other kind of operation
StartAnotherRun(workflowId) ==
    /\ Idle(workflowId) /\ nOps = 0
    /\ Finish([op |-> "startWorkflow", arg |-> Undefined,
               before |-> Snapshot(workflowId)],
              workflowId, startWorkflow(states, workflowContexts, workflowId))
    /\ UNCHANGED <<nOps, notion, observed, spawnVars, ehVars, svcVars>>

NextCapacity ==
    \/ \E w \in WorkflowIds : StartAnotherRun(w)
    \/ \E w \in WorkflowIds : StartWorkflow(w)
    \/ \E w \in WorkflowIds, o \in BootstrapperOutputs :
           HandleBootstrapperCompletion(w, o)
    \/ \E w \in WorkflowIds, o \in ImplementerOutputs :
           HandleImplementerCompletion(w, o)
    \/ \E w \in WorkflowIds, s \in WorkflowState : RetryWorkflow(w, s)
    \/ CoordinatorSteps

SpecCapacity == Init /\ [][NextCapacity]_vars

----------------------------------------------------------------------------
(* AgentFlowCoordinator with callers that do not wait: an operation may be  *)
(* called for a workflow while earlier operations of that workflow are      *)
(* suspended at their await.  The coordinator keeps no lock and no queue    *)
(* per workflow, so each call runs at once up to its own first await, and   *)
(* the awaited persistence calls settle in any order.  tasks[w] then holds  *)
(* every suspended operation of w.                                          *)

\* tasks[w] without its i-th entry
Others(workflowId, i) ==
    SubSeq(tasks[workflowId], 1, i - 1)
        \o SubSeq(tasks[workflowId], i + 1, Len(tasks[workflowId]))

\* what a stretch that ended with `out' leaves behind, `rest' being the
\* other suspended operations of the workflow
FinishAmong(call, workflowId, out, rest) ==
    /\ states' = out.states
    /\ workflowContexts' = out.contexts
    /\ IF out.kind = "await"
       THEN /\ tasks' = [tasks EXCEPT ![workflowId] =
                            Append(rest, [call |-> call, pc |-> out.pc,
                                          status |-> out.status])]
            /\ UNCHANGED result
       ELSE /\ tasks' = [tasks EXCEPT ![workflowId] = rest]
            /\ result' = Returned(call, workflowId, out.error)

\* a caller invokes an operation, whatever is suspended for the workflow
InvokeAtOnce(call, workflowId, out) ==
    /\ nOps < MaxOps
    /\ Len(tasks[workflowId]) < MaxPending
    /\ nOps' = nOps + 1
    /\ FinishAmong([op |-> call.op, arg |-> call.arg, before |-> Snapshot(workflowId)],
                   workflowId, out, tasks[workflowId])
    /\ UNCHANGED <<notion, observed, spawnVars, ehVars, svcVars>>

CallAtOnce(workflowId) ==
    \/ InvokeAtOnce(Call("startWorkflow", Undefined), workflowId,
                    startWorkflow(states, workflowContexts, workflowId))
    \/ \E output \in BootstrapperOutputs :
          InvokeAtOnce(Call("handleBootstrapperCompletion",
                            IF validateBootstrapperOutput(output)
                            THEN "valid" ELSE "invalid"),
                       workflowId,
                       handleBootstrapperCompletion(states, workflowContexts,
                                                    workflowId, output))
    \/ \E output \in ImplementerOutputs :
          InvokeAtOnce(Call("handleImplementerCompletion",
                            IF output.testsPassed THEN "passed" ELSE "failed"),
                       workflowId,
                       handleImplementerCompletion(states, workflowContexts,
                                                   workflowId, output))
    \/ \E fromStage \in WorkflowState :
          InvokeAtOnce(Call("retryWorkflow", fromStage), workflowId,
                       retryWorkflow(states, workflowContexts, workflowId, fromStage))

\* the persistence call awaited by the i-th suspended operation rejects
PersistFailsAt(workflowId, i) ==
    /\ i \in DOMAIN tasks[workflowId]
    /\ tasks' = [tasks EXCEPT ![workflowId] = Others(workflowId, i)]
    /\ result' = Returned(tasks[workflowId][i].call, workflowId,
                          "updateWorkflowStatus failed")
    /\ UNCHANGED <<states, workflowContexts, notion, nOps, observed, spawnVars,
                   ehVars, svcVars>>

\* the stage handler's spawnAgent call, the last statement of the operation
SpawnAndReturnAmong(call, workflowId, config, rest) ==
    /\ tasks' = [tasks EXCEPT ![workflowId] = rest]
    /\ \/ /\ spawnRejected(activeAgents)
          /\ result' = Returned(call, workflowId, "Max concurrent agents reached")
          /\ UNCHANGED spawnVars
       \/ /\ ~spawnRejected(activeAgents)
          /\ SpawnEffect(config)
          /\ result' = Returned(call, workflowId, "ok")
    /\ UNCHANGED <<states, workflowContexts>>

\* the persistence call awaited by the i-th suspended operation resolves
PersistSucceedsAt(workflowId, i) ==
    /\ i \in DOMAIN tasks[workflowId]
    /\ LET t == tasks[workflowId][i]
           rest == Others(workflowId, i)
       IN
       /\ notion' = [notion EXCEPT ![workflowId] = t.status]
       /\ CASE t.pc = "afterPending" ->
                 /\ FinishAmong(t.call, workflowId,
                                transitionToBootstrapping(states, workflowContexts,
                                                          workflowId, FALSE), rest)
                 /\ UNCHANGED spawnVars
            [] t.pc = "afterPlanning" ->
                 /\ FinishAmong(t.call, workflowId,
                                transitionToImplementing(states, workflowContexts,
                                                         workflowId), rest)
                 /\ UNCHANGED spawnVars
            [] t.pc = "spawnBootstrapper" ->
                 SpawnAndReturnAmong(t.call, workflowId,
                                     BootstrapperConfig(workflowId), rest)
            [] t.pc = "spawnImplementer" ->
                 SpawnAndReturnAmong(t.call, workflowId,
                                     ImplementerConfig(workflowId), rest)
            [] t.pc = "done" ->
                 /\ FinishAmong(t.call, workflowId,
                                Return(states, workflowContexts), rest)
                 /\ UNCHANGED spawnVars
    /\ UNCHANGED <<nOps, observed, ehVars, svcVars>>

NextInterleaved ==
    \/ \E w \in WorkflowIds : CallAtOnce(w)
    \/ \E w \in WorkflowIds, i \in 1..MaxPending : PersistSucceedsAt(w, i)
    \/ \E w \in WorkflowIds, i \in 1..MaxPending : PersistFailsAt(w, i)

SpecInterleaved == Init /\ [][NextInterleaved]_vars

\* An awaited persistence call settles, and a process or timer event that is
\* due is delivered; calls of the coordinator's operations are up to callers.
\* No observer of the spawner calls into the coordinator (handleAgentExit and
\* handleAgentError only log and untrack), so after a worker's exit or error
\* nothing that is scheduled touches its run again.
FairSpecCoord ==
    SpecCoord /\ WF_vars(CoordinatorSteps) /\ WF_vars(ProcessEvents)

----------------------------------------------------------------------------
(* WorkflowErrorHandler.  Texts are sequences of characters, so that the   *)
(* patterns are searched in a message the way RegExp.test searches them.   *)

maxRetries == 3

baseDelay == 1000

UpperToLower ==
        "A" :> "a" @@ "B" :> "b" @@ "C" :> "c" @@ "D" :> "d" @@ "E" :>
        "e" @@ "F" :> "f" @@ "G" :> "g" @@ "H" :> "h" @@ "I" :> "i" @@
        "J" :> "j" @@ "K" :> "k" @@ "L" :> "l" @@ "M" :> "m" @@ "N" :>
        "n" @@ "O" :> "o" @@ "P" :> "p" @@ "Q" :> "q" @@ "R" :> "r" @@
        "S" :> "s" @@ "T" :> "t" @@ "U" :> "u" @@ "V" :> "v" @@ "W" :>
        "w" @@ "X" :> "x" @@ "Y" :> "y" @@ "Z" :> "z"

\* String.prototype.toLowerCase
toLowerCase(text) ==
    [i \in 1..Len(text) |->
        IF text[i] \in DOMAIN UpperToLower THEN UpperToLower[text[i]] ELSE text[i]]

\* does `text' contain `pattern' as a substring
Includes(text, pattern) ==
    \E i \in 1..(Len(text) - Len(pattern) + 1) :
        SubSeq(text, i, i + Len(pattern) - 1) = pattern

\* /pattern/i.test(text), for a pattern made of literal characters
testIgnoreCase(pattern, text) == Includes(toLowerCase(text), toLowerCase(pattern))

recoverablePatterns ==
    <<<<"E", "C", "O", "N", "N", "R", "E", "F", "U", "S", "E", "D">>,
      <<"E", "T", "I", "M", "E", "D", "O", "U", "T">>,
      <<"E", "N", "O", "T", "F", "O", "U", "N", "D">>,
      <<"r", "a", "t", "e", " ", "l", "i", "m", "i", "t">>,
      <<"t", "i", "m", "e", "o", "u", "t">>,
      <<"n", "e", "t", "w", "o", "r", "k">>,
      <<"t", "e", "m", "p", "o", "r", "a", "r", "y">>>>

\* recoverablePatterns.some((pattern) => pattern.test(errorMessage)), with
\* errorMessage the lower-cased message
somePatternMatches(message) ==
    \E i \in DOMAIN recoverablePatterns :
        testIgnoreCase(recoverablePatterns[i], toLowerCase(message))

\* the messages of the errors handed to handleError
\* "connect ECONNREFUSED"
EconnRefused ==
    <<"c", "o", "n", "n", "e", "c", "t", " ", "E", "C", "O", "N", "N", "R", "E", "F", "U", "S", "E", "D">>

\* "Request Timeout"
RequestTimeout ==
    <<"R", "e", "q", "u", "e", "s", "t", " ", "T", "i", "m", "e", "o", "u", "t">>

\* "Rate limit exceeded"
RateLimit ==
    <<"R", "a", "t", "e", " ", "l", "i", "m", "i", "t", " ", "e", "x", "c", "e", "e", "d", "e", "d">>

\* "rate-limited"
RateLimited ==
    <<"r", "a", "t", "e", "-", "l", "i", "m", "i", "t", "e", "d">>

\* "Validation failed"
ValidationFailed ==
    <<"V", "a", "l", "i", "d", "a", "t", "i", "o", "n", " ", "f", "a", "i", "l", "e", "d">>

ErrorMessages == {EconnRefused, RequestTimeout, RateLimit, RateLimited, ValidationFailed}

\* isRecoverableError(error), evaluated once for each message
isRecoverable == [message \in ErrorMessages |-> somePatternMatches(message)]

isRecoverableError(message) == isRecoverable[message]

Min(a, b) == IF a <= b THEN a ELSE b

\* a backoff that grows linearly with the attempt number
calculateBackoff_linear(attemptNumber, jitter) ==
    Min(baseDelay * (attemptNumber + 1) + jitter, 30000)

\* calculateBackoff(attemptNumber), with `jitter' standing for
\* Math.random() * 1000
calculateBackoff(attemptNumber, jitter) ==
    Min(baseDelay * pow2(attemptNumber) + jitter, 30000)

\* `${workflowId}-${stage}`: workflow ids are kept as their '-'-separated
\* segments, so that the key is the id's segments, a '-' and the stage
errorKey(workflowId, stage) == workflowId \o <<"-", stage>>

\* this.errorCounts.get(errorKey) || 0
getErrorCount(counts, workflowId, stage) ==
    IF errorKey(workflowId, stage) \in DOMAIN counts
    THEN counts[errorKey(workflowId, stage)] ELSE 0

\* a handler that counts only the failures it answers with a retry
handleErrorCounts_retriesOnly(counts, context) ==
    IF isRecoverableError(context.error) /\ context.attemptNumber < 3
    THEN MapSet(counts, errorKey(context.workflowId, context.stage),
                getErrorCount(counts, context.workflowId, context.stage) + 1)
    ELSE counts

\* handleError(context): the errorCounts map after the call
handleErrorCounts(counts, context) ==
    MapSet(counts, errorKey(context.workflowId, context.stage),
           getErrorCount(counts, context.workflowId, context.stage) + 1)

\* handleError that still retries when the attempt number equals maxRetries
handleError_retriesAtCeiling(context, jitter) ==
    LET recoverable == isRecoverableError(context.error)
        shouldRetry == recoverable /\ context.attemptNumber <= maxRetries
    IN  IF shouldRetry
        THEN [shouldRetry |-> TRUE, strategy |-> "retry",
              retryDelay |-> <<calculateBackoff(context.attemptNumber, jitter)>>]
        ELSE [shouldRetry |-> FALSE, strategy |-> "block", retryDelay |-> NoArg]

\* handleError(context): the ErrorHandlingResult it returns
handleError(context, jitter) ==
    LET recoverable == isRecoverableError(context.error)
        shouldRetry == recoverable /\ context.attemptNumber < maxRetries
    IN  IF shouldRetry
        THEN [shouldRetry |-> TRUE, strategy |-> "retry",
              retryDelay |-> <<calculateBackoff(context.attemptNumber, jitter)>>]
        ELSE [shouldRetry |-> FALSE, strategy |-> "block", retryDelay |-> NoArg]

\* resetErrorCount(workflowId, stage): errorCounts.delete(errorKey)
resetErrorCount(counts, workflowId, stage) ==
    MapDelete(counts, errorKey(workflowId, stage))

----------------------------------------------------------------------------
(* WorkflowErrorHandler: calls of its public methods *)

\* hyphenated workflow ids, as the examples use them (test-workflow-1)
EHWorkflowIds == {<<"test", "-", "1">>, <<"test", "-", "2">>}

EHStages == {"bootstrapping", "implementing"}

AttemptNumbers == 0..3

Jitters == {0, 999}

RECURSIVE SumOver(_, _)
SumOver(counts, keys) ==
    IF keys = {} THEN 0
    ELSE LET k == CHOOSE x \in keys : TRUE
         IN  counts[k] + SumOver(counts, keys \ {k})

\* the failures counted so far, over all keys
TotalCounted == SumOver(errorCounts, DOMAIN errorCounts)

RetriedOn(workflowId, stage) ==
    IF errorKey(workflowId, stage) \in DOMAIN retried
    THEN retried[errorKey(workflowId, stage)] ELSE 0

\* the call before this one was a handleError for the same workflow and
\* stage that returned a retry verdict, and this is the attempt after it
FollowsLastCall(context) ==
    /\ streak > 0
    /\ result.op = "handleError"
    /\ result.context.workflowId = context.workflowId
    /\ result.context.stage = context.stage
    /\ context.attemptNumber = result.context.attemptNumber + 1

HandleError(workflowId, stage, error, attemptNumber, jitter) ==
    LET context == [workflowId |-> workflowId, stage |-> stage, error |-> error,
                    attemptNumber |-> attemptNumber, maxAttempts |-> 3]
    IN  /\ TotalCounted < MaxErrors
        /\ errorCounts' = handleErrorCounts(errorCounts, context)
        /\ result' = [op |-> "handleError", context |-> context,
                      jitter |-> IF handleError(context, jitter).shouldRetry
                                 THEN <<jitter>> ELSE NoArg,
                      outcome |-> handleError(context, jitter)]
        /\ retried' = IF handleError(context, jitter).shouldRetry
                      THEN MapSet(retried, errorKey(workflowId, stage),
                                  RetriedOn(workflowId, stage) + 1)
                      ELSE retried
        /\ streak' = IF ~handleError(context, jitter).shouldRetry THEN 0
                     ELSE IF FollowsLastCall(context) THEN streak + 1 ELSE 1
        /\ UNCHANGED <<smVars, coordVars, spawnVars, svcVars>>

ResetErrorCount(workflowId, stage) ==
    /\ errorCounts' = resetErrorCount(errorCounts, workflowId, stage)
    /\ retried' = MapDelete(retried, errorKey(workflowId, stage))
    /\ streak' = 0
    /\ result' = [op |-> "resetErrorCount", workflowId |-> workflowId,
                  stage |-> stage]
    /\ UNCHANGED <<smVars, coordVars, spawnVars, svcVars>>

GetErrorCount(workflowId, stage) ==
    /\ result' = [op |-> "getErrorCount", workflowId |-> workflowId,
                  stage |-> stage,
                  outcome |-> getErrorCount(errorCounts, workflowId, stage)]
    /\ streak' = 0
    /\ UNCHANGED <<smVars, coordVars, spawnVars, errorCounts, retried, svcVars>>

ClearAllErrors ==
    /\ errorCounts' = EmptyMap
    /\ retried' = EmptyMap
    /\ streak' = 0
    /\ result' = [op |-> "clearAllErrors"]
    /\ UNCHANGED <<smVars, coordVars, spawnVars, svcVars>>

NextEH ==
    \/ \E w \in EHWorkflowIds, s \in EHStages, e \in ErrorMessages,
          n \in AttemptNumbers, j \in Jitters : HandleError(w, s, e, n, j)
    \/ \E w \in EHWorkflowIds, s \in EHStages : ResetErrorCount(w, s)
    \/ \E w \in EHWorkflowIds, s \in EHStages : GetErrorCount(w, s)
    \/ ClearAllErrors

SpecEH == Init /\ [][NextEH]_vars

\* key.split('-')[0] || '': the part of the key before its first '-'
RECURSIVE firstSegment(_)
firstSegment(key) ==
    IF key = << >> \/ Head(key) = "-" THEN << >>
    ELSE <<Head(key)>> \o firstSegment(Tail(key))

\* getStatistics(): totalErrors sums the values of errorCounts, and
\* errorsByWorkflow adds each count to the entry named by its key's first
\* segment
getStatistics(counts) ==
    [totalErrors |-> SumOver(counts, DOMAIN counts),
     errorsByWorkflow |->
        [id \in {firstSegment(key) : key \in DOMAIN counts} |->
            SumOver(counts, {key \in DOMAIN counts : firstSegment(key) = id})]]

GetStatistics ==
    /\ result' = [op |-> "getStatistics", outcome |-> getStatistics(errorCounts)]
    /\ streak' = 0
    /\ UNCHANGED <<smVars, coordVars, spawnVars, errorCounts, retried, svcVars>>

NextStatistics ==
    \/ NextEH
    \/ GetStatistics

\* the error handler with its statistics being read
SpecStatistics == Init /\ [][NextStatistics]_vars

----------------------------------------------------------------------------
(* NotionCRUDService.withRetry: calls, and how the awaited promises settle *)

\* the methods of the service that wrap their request in withRetry
WrappedOperations == {"updateWorkflowStatus", "queryWorkflows"}

\* the `code' of the error an operation rejects with: the rate limit, some
\* other API error, or an error without a code
ErrorCodes == {"rate_limited", "unauthorized", Undefined}

\* what the caller of withRetry gets: the operation's value, or the error
\* that is thrown; `from' tells which invocation raised the error
RetryReturned(t, outcome) ==
    [op |-> "withRetry", operation |-> t.operation, outcome |-> outcome,
     error |-> t.lastError, invoked |-> t.invoked, waited |-> t.waited]

\* a stretch of withRetry ended in t: it is suspended again, or it has thrown
RetrySettles(t) ==
    IF t.pc = "thrown"
    THEN /\ retryTask' = NoRetryTask
         /\ result' = RetryReturned(t, "thrown")
    ELSE /\ retryTask' = t
         /\ UNCHANGED result

WithRetry(operation) ==
    /\ retryTask.pc = "idle"
    /\ retryTask' = withRetry(operation)
    /\ UNCHANGED <<result, smVars, coordVars, spawnVars, ehVars, idVars, hookVars>>

\* return await operation()
OperationResolves ==
    /\ retryTask.pc = "awaitOperation"
    /\ retryTask' = NoRetryTask
    /\ result' = RetryReturned([retryTask EXCEPT !.lastError = NoArg], "ok")
    /\ UNCHANGED <<smVars, coordVars, spawnVars, ehVars, idVars, hookVars>>

OperationRejects(code) ==
    /\ retryTask.pc = "awaitOperation"
    /\ RetrySettles(operationRejected(retryTask,
                        [code |-> code, from |-> retryTask.invoked]))
    /\ UNCHANGED <<smVars, coordVars, spawnVars, ehVars, idVars, hookVars>>

\* the setTimeout(resolve, delay) of the backoff fires
DelayElapses ==
    /\ retryTask.pc = "awaitDelay"
    /\ retryTask' = delayElapsed(retryTask)
    /\ UNCHANGED <<result, smVars, coordVars, spawnVars, ehVars, idVars, hookVars>>

NextRetry ==
    \/ \E o \in WrappedOperations : WithRetry(o)
    \/ OperationResolves
    \/ \E c \in ErrorCodes : OperationRejects(c)
    \/ DelayElapses

SpecRetry == Init /\ [][NextRetry]_vars

----------------------------------------------------------------------------
(* OrchestrationServer.handleWebhook.  A signature is the hex digest of an  *)
(* HMAC, for which the pair of key and text stands; a header that is not a  *)
(* digest is a text of another length.                                      *)

\* process.env['NOTION_WEBHOOK_SECRET']
webhookSecret == "test_secret"

\* crypto.createHmac('sha256', secret).update(body).digest('hex')
hmacDigest(secret, body) == <<"hmac-sha256", secret, body>>

\* verifyWebhookSignature: Buffer.from(undefined) throws, timingSafeEqual
\* throws on buffers of different length; the catch block returns false.
\* A missing header is the empty sequence.
verifyWebhookSignature(body, signature, secret) ==
    IF signature = NoArg THEN FALSE
    ELSE IF Len(signature) # Len(hmacDigest(secret, body)) THEN FALSE
    ELSE signature = hmacDigest(secret, body)

\* the texts that JSON.parse accepts, with the value it returns for each
JsonValue ==
    [created |-> [type |-> "page_created"], updated |-> [type |-> "page_updated"]]

\* the raw bodies a request may carry, besides none at all: "created" and
\* "updated" stand for the JSON texts of two events
RawBodies == {"created", "updated", "invalid json"}

\* body?.raw?.toString() || ''
rawBodyOf(req) == IF req.raw = Undefined THEN "" ELSE req.raw

\* what handleWebhook did with a request: the status it answered, the steps
\* it went through, and the payload it handed over, if any
WebhookOutcome(status, steps, payload) ==
    [status |-> status, steps |-> steps, payload |-> payload]

\* handleWebhook that parses the body before it verifies the signature
handleWebhook_parsesFirst(req, handlerThrows) ==
    LET rawBody == rawBodyOf(req) IN
    IF rawBody \notin DOMAIN JsonValue
    THEN WebhookOutcome(400, <<"parse">>, NoArg)
    ELSE IF ~verifyWebhookSignature(rawBody, req.signature, webhookSecret)
    THEN WebhookOutcome(401, <<"parse", "verify">>, NoArg)
    ELSE WebhookOutcome(IF handlerThrows THEN 500 ELSE 200,
                        <<"parse", "verify", "dispatch">>, <<JsonValue[rawBody]>>)

\* handleWebhook(req, res); handlerThrows tells whether processWebhook throws
handleWebhook(req, handlerThrows) ==
    LET rawBody == rawBodyOf(req) IN
    IF ~verifyWebhookSignature(rawBody, req.signature, webhookSecret)
    THEN WebhookOutcome(401, <<"verify">>, NoArg)
    ELSE IF rawBody \notin DOMAIN JsonValue
    THEN WebhookOutcome(400, <<"verify", "parse">>, NoArg)
    ELSE WebhookOutcome(IF handlerThrows THEN 500 ELSE 200,
                        <<"verify", "parse", "dispatch">>, <<JsonValue[rawBody]>>)

\* the x-notion-signature header: missing, not a digest, the digest of some
\* body under the secret or under another key
Signatures ==
    {NoArg, <<"test-signature">>}
        \cup {hmacDigest(k, b) : k \in {webhookSecret, "other"},
                                 b \in RawBodies \cup {""}}

WebhookRequests ==
    [signature : Signatures, raw : RawBodies \cup {Undefined}]

\* a POST /notion-webhook request reaches handleWebhook
HandleWebhook(req, handlerThrows) ==
    LET out == handleWebhook(req, handlerThrows) IN
    /\ Len(dispatched) + Len(out.payload) <= MaxWebhooks
    /\ dispatched' = dispatched \o out.payload
    /\ result' = [op |-> "handleWebhook", request |-> req, status |-> out.status,
                  steps |-> out.steps]
    /\ UNCHANGED <<retryTask, idVars, smVars, coordVars, spawnVars, ehVars>>

NextWebhook ==
    \E req \in WebhookRequests, handlerThrows \in BOOLEAN :
        HandleWebhook(req, handlerThrows)

SpecWebhook == Init /\ [][NextWebhook]_vars

----------------------------------------------------------------------------
(* Properties of the coordinator *)

CoordinatorOps == {"startWorkflow", "handleBootstrapperCompletion",
                   "handleImplementerCompletion", "retryWorkflow"}

\* in this step an operation in ops returns to (or throws at) its caller for
\* w: a suspended operation of w ends, or a call throws before its first await
Returns(ops, w) ==
    /\ \/ tasks[w] # << >> /\ tasks'[w] = << >>
       \/ /\ tasks' = tasks
          /\ result' # result \/ states' # states \/ workflowContexts' # workflowContexts
    /\ result'.op \in ops
    /\ result'.id = w

\* in this step an operation in ops runs one of its stretches for workflow w
Runs(ops, w) ==
    \/ Returns(ops, w)
    \/ /\ tasks'[w] # tasks[w]
       /\ tasks'[w] # << >>
       /\ tasks'[w][1].call.op \in ops

Stage(st, w) == IF w \in DOMAIN st THEN st[w].currentState ELSE "untracked"

HasTransition(h, from, to) == \E i \in 1..Len(h) : h[i].from = from /\ h[i].to = to

\* the run went from implementing to blocked because tests failed, and since
\* then at most the retry's own blocked -> implementing was appended
BlockedByTestFailure(h) ==
    \E i \in 1..Len(h) :
        /\ h[i].from = "implementing" /\ h[i].to = "blocked"
        /\ h[i].metadata # NoArg
        /\ h[i].metadata[1]["reason"] = "Tests failed"
        /\ \/ i = Len(h)
           \/ /\ i = Len(h) - 1
              /\ h[Len(h)].from = "blocked" /\ h[Len(h)].to = "implementing"

NewWorkers(type, w) ==
    {a \in DOMAIN processes' \ DOMAIN processes : a[1] = type /\ a[2] = w}

\* C6: for a run that was in implementing and was blocked by
\* handleImplementerCompletion with testsPassed = false,
\* retryWorkflow(id, "implementing") completes successfully, leaves the run in
\* implementing, spawns a new implementer and the history contains the
\* transition blocked -> implementing.
C6_RetryImplementingSucceeds ==
    [][\A w \in WorkflowIds :
          (/\ Returns({"retryWorkflow"}, w)
           /\ result'.arg = "implementing"
           /\ w \in DOMAIN states
           /\ BlockedByTestFailure(states[w].history))
          => /\ result'.outcome = "ok"
             /\ Stage(states', w) = "implementing"
             /\ NewWorkers("implementer", w) # {}
             /\ HasTransition(states'[w].history, "blocked", "implementing")]_vars

ForwardMoves == {<<"pending", "bootstrapping">>, <<"bootstrapping", "planning">>,
                 <<"planning", "implementing">>, <<"implementing", "complete">>}

\* C7: driven through the coordinator's operations only, a run's stage
\* changes only along pending -> exploring -> planning -> implementing ->
\* complete, from a non-terminal stage into blocked, or from blocked into
\* the target of a retry; no operation moves a run backwards.
C7_StagesOnlyMoveForward ==
    [][\A w \in DOMAIN states \cap DOMAIN states' :
          (/\ Stage(states', w) # Stage(states, w)
           /\ states'[w].history # << >>)      \* not a run created anew
          => \/ <<Stage(states, w), Stage(states', w)>> \in ForwardMoves
             \/ /\ Stage(states, w) # "complete"
                /\ Stage(states', w) = "blocked"
             \/ /\ Stage(states, w) = "blocked"
                /\ Runs({"retryWorkflow"}, w)]_vars

\* C8: a blocked run stays blocked until retryWorkflow is called for it:
\* neither completion handler, whatever the payload, moves a blocked run to
\* another stage or spawns a worker for it.
C8_BlockedUntilRetry ==
    [][\A w \in WorkflowIds :
          (/\ Stage(states, w) = "blocked"
           /\ Runs({"handleBootstrapperCompletion",
                    "handleImplementerCompletion"}, w))
          => /\ Stage(states', w) = "blocked"
             /\ DOMAIN processes' = DOMAIN processes]_vars

\* the workers created for workflow w, and the one created last
WorkersOf(w) == {a \in DOMAIN processes : a[2] = w}

LastWorkerOf(w) == CHOOSE a \in WorkersOf(w) : \A b \in WorkersOf(w) : b[3] <= a[3]

StageWorker == [bootstrapping |-> "bootstrapper", implementing |-> "implementer"]

\* the worker spawned for w's current stage exited abnormally, raised a
\* process error or was killed, and is no longer tracked
WorkerFailed(w) ==
    /\ Stage(states, w) \in DOMAIN StageWorker
    /\ Idle(w)
    /\ WorkersOf(w) # {}
    /\ LastWorkerOf(w)[1] = StageWorker[Stage(states, w)]
    /\ LastWorkerOf(w) \notin DOMAIN activeAgents
    /\ processes[LastWorkerOf(w)] # "exit-0"

\* the run is blocked with the failure recorded in its metadata, or an
\* operation on it has raised an error to its caller
FailureSurfaced(w) ==
    \/ /\ Stage(states, w) = "blocked"
       /\ states[w].metadata["reason"] # Undefined
    \/ /\ result.op \in CoordinatorOps
       /\ result.id = w
       /\ result.outcome # "ok"

\* C9: if the worker spawned for a run's current stage fails, the failure is
\* not silent: the run eventually reaches blocked with the failure recorded,
\* or the failure is raised to a caller; the run does not stay in exploring
\* or implementing forever with no tracked worker.
C9_WorkerFailureSurfaces ==
    \A w \in WorkflowIds : WorkerFailed(w) ~> (FailureSurfaced(w) \/ ~WorkerFailed(w))

\* C1: over any sequence of spawn, kill, shutdown, timeout, exit and error
\* events the number of tracked handles never exceeds 10, and a spawn
\* attempted while exactly 10 handles are tracked fails with the capacity
\* error.
C1_ConcurrencyCeiling ==
    [][/\ Cardinality(DOMAIN activeAgents') <= 10
       /\ (/\ result'.op = "spawnAgent"
           /\ (result' # result \/ nextAgentId' # nextAgentId)
           /\ Cardinality(DOMAIN activeAgents) = 10)
          => /\ result'.outcome = "Max concurrent agents reached"
             /\ activeAgents' = activeAgents]_vars

C1_Witness ==
    /\ result.op = "spawnAgent"
    /\ result.outcome = "Max concurrent agents reached"
    /\ Cardinality(DOMAIN activeAgents) = 10
    /\ nextAgentId = 11
    /\ nCalls > 0

\* C10: when shutdown() returns, every handle that was tracked when it was
\* called has terminated and the active set is empty.
C10_ShutdownLeavesNoActiveHandle ==
    [][(result'.op = "shutdown" /\ nCalls' # nCalls)
         => /\ DOMAIN activeAgents' = {}
            /\ \A a \in DOMAIN activeAgents : processes'[a] \in Dead]_vars

----------------------------------------------------------------------------
(* The transition table as section 4.1 of the specification states it,     *)
(* with `exploring' written as the code writes it, "bootstrapping".        *)

TransitionTable ==
    [pending       |-> {"bootstrapping", "blocked"},
     bootstrapping |-> {"planning", "blocked", "pending"},
     planning      |-> {"implementing", "blocked", "bootstrapping"},
     implementing  |-> {"complete", "blocked", "planning"},
     complete      |-> {},
     blocked       |-> {"pending", "bootstrapping", "planning", "implementing"}]

\* C2: for each of the 36 ordered pairs of stages, validateTransition(from, to)
\* returns true exactly when `to' is an allowed destination of `from' in the
\* transition table, and the call changes no run and nothing else.
C2_ValidateAgreesWithTable ==
    [][result'.op = "validateTransition"
         => /\ result'.outcome = (result'.to \in TransitionTable[result'.from])
            /\ UNCHANGED <<smVars, coordVars, spawnVars, ehVars, svcVars>>]_vars

C2_Witness ==
    /\ result.op = "validateTransition"
    /\ result.from = "blocked" /\ result.to = "implementing"
    /\ result.outcome = TRUE
    /\ "w1" \in DOMAIN states /\ Len(states["w1"].history) > 0

\* C3: a transition(runId, to) that validateTransition rejects throws the
\* invalid-transition error and leaves the run's current stage, previous
\* stage, history and metadata exactly as they were.
C3_RejectedTransitionChangesNothing ==
    [][\A w \in DOMAIN states :
          (/\ result'.op = "transition" /\ result'.id = w
           /\ ~(result'.to \in TransitionTable[states[w].currentState]))
          => /\ result'.outcome = "Invalid state transition"
             /\ w \in DOMAIN states'
             /\ states'[w] = states[w]]_vars

C3_Witness ==
    /\ result.op = "transition" /\ result.outcome = "Invalid state transition"
    /\ result.id \in DOMAIN states
    /\ Len(states[result.id].history) = 2
    /\ states[result.id].metadata.reason = "test"

\* C4: for a run created by initializeWorkflow and then driven by transition
\* calls of which N returned, the history has exactly N entries, the first
\* entry starts at the initial stage, each entry starts where the previous one
\* ended, and the last entry ends at the current stage; calls that threw
\* added nothing.
C4_HistoryIsTheChainOfSuccessfulTransitions ==
    \A w \in DOMAIN observed :
        /\ w \in DOMAIN states
        /\ LET h == states[w].history IN
           /\ Len(h) = observed[w].succeeded
           /\ Len(h) = 0 => states[w].currentState = observed[w].initial
           /\ Len(h) > 0 => /\ h[1].from = observed[w].initial
                            /\ h[Len(h)].to = states[w].currentState
           /\ \A i \in 1..(Len(h) - 1) : h[i].to = h[i + 1].from

C4_Witness ==
    /\ "w1" \in DOMAIN observed
    /\ observed["w1"].succeeded = MaxHistory
    /\ result.op = "transition" /\ result.outcome = "Invalid state transition"

\* C5: a second initializeWorkflow for an identifier that is already tracked
\* fails, and the tracked run keeps its stage, history and metadata.
C5_SecondInitializeFails ==
    [][(result'.op = "initializeWorkflow" /\ result'.id \in DOMAIN states)
         => (result'.outcome # "ok" /\ states' = states)]_vars

----------------------------------------------------------------------------
(* Contracts of the coordinator's operations *)

\* in this step a caller invokes operation op for workflow w: the operation
\* runs up to its first await, or throws before it
Invokes(op, w) ==
    /\ nOps' = nOps + 1
    /\ \/ tasks'[w] # << >> /\ tasks'[w][1].call.op = op
       \/ tasks'[w] = << >> /\ result'.op = op /\ result'.id = w

\* the step appends nothing to any history, persists nothing, creates no
\* process and leaves every run's stage and context as they were
NothingHappens ==
    /\ states' = states
    /\ workflowContexts' = workflowContexts
    /\ notion' = notion
    /\ UNCHANGED spawnVars

\* C11: retryWorkflow on a tracked run whose stage is not blocked fails with
\* the 'is not blocked' error, and on an untracked id with the 'not found'
\* error; in both cases no transition is appended, no status is persisted, no
\* worker is spawned and the run's stage is unchanged.
C11_RetryRejected ==
    [][\A w \in WorkflowIds :
          Invokes("retryWorkflow", w)
          => /\ w \notin DOMAIN workflowContexts
                  => /\ tasks'[w] = << >>
                     /\ result'.outcome = "not found"
                     /\ NothingHappens
             /\ (w \in DOMAIN workflowContexts /\ Stage(states, w) # "blocked")
                  => /\ tasks'[w] = << >>
                     /\ result'.outcome = "is not blocked"
                     /\ NothingHappens]_vars

\* a retry was refused for a run that is in implementing with its worker
\* running
C11_Witness ==
    /\ result.op = "retryWorkflow" /\ result.outcome = "is not blocked"
    /\ result.arg = "bootstrapping"
    /\ Stage(states, "w1") = "implementing"
    /\ \E a \in DOMAIN activeAgents : a[1] = "implementer"

\* the snapshot taken when the operation that returns in this step was called
BeforeCall(w) ==
    IF tasks[w] # << >> THEN tasks[w][1].call.before ELSE Snapshot(w)

\* the stages a history passes through: its <<from, to>> pairs
Path(h) == [i \in 1..Len(h) |-> <<h[i].from, h[i].to>>]

HistoryOf(st, w) == IF w \in DOMAIN st THEN st[w].history ELSE << >>

HappyPath == <<(<<"pending", "bootstrapping">>), (<<"bootstrapping", "planning">>),
               (<<"planning", "implementing">>), (<<"implementing", "complete">>)>>

\* in this step operation op, called with arg, returns normally for w
ReturnsOk(op, arg, w) ==
    /\ Returns({op}, w)
    /\ result'.arg = arg
    /\ result'.outcome = "ok"

\* C12: startWorkflow(id), handleBootstrapperCompletion(id, valid output),
\* handleImplementerCompletion(id, testsPassed = true), each returning
\* normally and each called on the run the previous one left, end in stage
\* complete with the history pending -> bootstrapping, bootstrapping ->
\* planning, planning -> implementing, implementing -> complete, in order.
C12_HappyPath ==
    [][\A w \in WorkflowIds :
          /\ ReturnsOk("startWorkflow", Undefined, w)
                => /\ Path(HistoryOf(states', w)) = SubSeq(HappyPath, 1, 1)
                   /\ Stage(states', w) = "bootstrapping"
          /\ (/\ ReturnsOk("handleBootstrapperCompletion", "valid", w)
              /\ Path(BeforeCall(w).history) = SubSeq(HappyPath, 1, 1))
                => /\ Path(HistoryOf(states', w)) = SubSeq(HappyPath, 1, 3)
                   /\ Stage(states', w) = "implementing"
          /\ (/\ ReturnsOk("handleImplementerCompletion", "passed", w)
              /\ Path(BeforeCall(w).history) = SubSeq(HappyPath, 1, 3))
                => /\ Path(HistoryOf(states', w)) = HappyPath
                   /\ Stage(states', w) = "complete"]_vars

C12_Witness ==
    /\ result = [op |-> "handleImplementerCompletion", id |-> "w1",
                 arg |-> "passed", outcome |-> "ok"]
    /\ Path(HistoryOf(states, "w1")) = HappyPath
    /\ Stage(states, "w1") = "complete"
    /\ notion["w1"] = "complete"
    /\ nOps = 3

\* the workers created for w in this step, and since the returning call
Spawned(w) == {a \in DOMAIN processes' \ DOMAIN processes : a[2] = w}

SpawnedSinceCall(w) == {a \in DOMAIN processes' : a[2] = w} \ BeforeCall(w).workers

\* C13: startWorkflow(id) initialises the run at pending, persists pending,
\* transitions pending -> bootstrapping, persists bootstrapping and spawns
\* exactly one bootstrapper, in this order; when it returns normally the
\* stage is bootstrapping; the worker is never spawned before the
\* bootstrapping status has been persisted.
C13_StartWorkflowOrder ==
    [][\A w \in WorkflowIds :
          /\ Invokes("startWorkflow", w)
                => /\ Stage(states', w) = "pending"
                   /\ HistoryOf(states', w) = << >>
                   /\ notion' = notion
                   /\ Spawned(w) = {}
                   /\ tasks'[w] # << >> /\ tasks'[w][1].status = "pending"
          /\ (Runs({"startWorkflow"}, w) /\ ~Invokes("startWorkflow", w))
                => /\ notion'[w] # notion[w] => notion'[w] \in {"pending", "bootstrapping"}
                   /\ Stage(states', w) # Stage(states, w)
                         => /\ Stage(states, w) = "pending"
                            /\ Stage(states', w) = "bootstrapping"
                            /\ notion'[w] = "pending"
                   /\ Spawned(w) # {}
                         => /\ notion'[w] = "bootstrapping"
                            /\ Stage(states, w) = "bootstrapping"
                            /\ Returns({"startWorkflow"}, w)
          /\ ReturnsOk("startWorkflow", Undefined, w)
                => /\ Stage(states', w) = "bootstrapping"
                   /\ notion'[w] = "bootstrapping"
                   /\ Cardinality(SpawnedSinceCall(w)) = 1
                   /\ \A a \in SpawnedSinceCall(w) : a[1] = "bootstrapper"]_vars

\* a second startWorkflow has returned with its own bootstrapper spawned
C13_Witness ==
    /\ result = [op |-> "startWorkflow", id |-> "w1", arg |-> Undefined,
                 outcome |-> "ok"]
    /\ Stage(states, "w1") = "bootstrapping"
    /\ notion["w1"] = "bootstrapping"
    /\ Cardinality({a \in DOMAIN activeAgents : a[1] = "bootstrapper"}) = 2

\* the argument of the operation that runs in this step for w
CallArg(w) == IF tasks'[w] # << >> THEN tasks'[w][1].call.arg ELSE result'.arg

ContextOf(ctx, w) == IF w \in DOMAIN ctx THEN <<ctx[w]>> ELSE << >>

\* C14: for a run in bootstrapping, handleBootstrapperCompletion with an
\* output that lacks a mandatory field moves the run to blocked, records the
\* reason 'Invalid bootstrapper output' in the run's metadata, persists
\* blocked, does not store the output and spawns no worker.
C14_InvalidOutputBlocks ==
    [][\A w \in WorkflowIds :
          /\ (/\ Invokes("handleBootstrapperCompletion", w)
              /\ CallArg(w) = "invalid"
              /\ Stage(states, w) = "bootstrapping")
                => /\ Stage(states', w) = "blocked"
                   /\ states'[w].metadata["reason"] = "Invalid bootstrapper output"
                   /\ states'[w].metadata["agentType"] = "bootstrapper"
                   /\ tasks'[w] # << >> /\ tasks'[w][1].status = "blocked"
                   /\ Spawned(w) = {}
          /\ (/\ ReturnsOk("handleBootstrapperCompletion", "invalid", w)
              /\ BeforeCall(w).stage = "bootstrapping")
                => /\ Stage(states', w) = "blocked"
                   /\ states'[w].metadata["reason"] = "Invalid bootstrapper output"
                   /\ notion'[w] = "blocked"
                   /\ SpawnedSinceCall(w) = {}
                   /\ BeforeCall(w).context # << >>
                   /\ workflowContexts'[w].bootstrapperOutput
                        = BeforeCall(w).context[1].bootstrapperOutput
                   /\ workflowContexts'[w].lastFailure
                        = <<[agentType |-> "bootstrapper",
                             reason |-> "Invalid bootstrapper output"]>>]_vars

C14_Witness ==
    /\ result = [op |-> "handleBootstrapperCompletion", id |-> "w1",
                 arg |-> "invalid", outcome |-> "ok"]
    /\ Path(HistoryOf(states, "w1"))
         = <<(<<"pending", "bootstrapping">>), (<<"bootstrapping", "blocked">>)>>
    /\ notion["w1"] = "blocked"
    /\ workflowContexts["w1"].bootstrapperOutput = NoArg

\* in this step a suspended call of op with argument arg, made when w was
\* in stage `from', runs on after its awaited persistence call resolved
Continues(op, arg, from, w) ==
    /\ tasks[w] # << >>
    /\ tasks[w][1].call.op = op
    /\ tasks[w][1].call.arg = arg
    /\ tasks[w][1].call.before.stage = from
    /\ notion'[w] = tasks[w][1].status
    /\ tasks'[w] # tasks[w]
    /\ ~(tasks'[w] = << >> /\ result'.outcome = "updateWorkflowStatus failed")

\* C15: for a run in bootstrapping, handleBootstrapperCompletion with a valid
\* output passes through planning without stopping: it persists planning and
\* then implementing, in that order, spawns exactly one implementer and no
\* planner, and when it returns normally the stage is implementing.
C15_PlanningIsPassedThrough ==
    [][\A w \in WorkflowIds :
          /\ (/\ Invokes("handleBootstrapperCompletion", w)
              /\ CallArg(w) = "valid"
              /\ Stage(states, w) = "bootstrapping")
                => /\ Stage(states', w) = "planning"
                   /\ tasks'[w] # << >> /\ tasks'[w][1].status = "planning"
                   /\ notion' = notion
                   /\ Spawned(w) = {}
          /\ Continues("handleBootstrapperCompletion", "valid", "bootstrapping", w)
                => \/ /\ notion'[w] = "planning"
                      /\ Stage(states', w) = "implementing"
                      /\ tasks'[w] # << >> /\ tasks'[w][1].status = "implementing"
                      /\ Spawned(w) = {}
                   \/ /\ notion'[w] = "implementing"
                      /\ notion[w] = "planning"
                      /\ tasks'[w] = << >>
                      /\ Stage(states', w) = "implementing"
          /\ (/\ ReturnsOk("handleBootstrapperCompletion", "valid", w)
              /\ BeforeCall(w).stage = "bootstrapping")
                => /\ Stage(states', w) = "implementing"
                   /\ notion'[w] = "implementing"
                   /\ Cardinality(SpawnedSinceCall(w)) = 1
                   /\ \A a \in SpawnedSinceCall(w) : a[1] = "implementer"
                   /\ workflowContexts'[w].bootstrapperOutput # NoArg]_vars

C15_Witness ==
    /\ result = [op |-> "handleBootstrapperCompletion", id |-> "w1",
                 arg |-> "valid", outcome |-> "ok"]
    /\ Path(HistoryOf(states, "w1")) = SubSeq(HappyPath, 1, 3)
    /\ notion["w1"] = "implementing"
    /\ \E a \in DOMAIN activeAgents : a[1] = "implementer"
    /\ \A a \in DOMAIN processes : a[1] # "planner"

\* the last transition of history h went from `from' to `to'
LastMove(h, from, to) ==
    /\ h # << >>
    /\ h[Len(h)].from = from
    /\ h[Len(h)].to = to

\* C16: for a run blocked out of bootstrapping, retryWorkflow(id,
\* bootstrapping) appends exactly one transition, blocked -> bootstrapping
\* (the stage handler applies no second one), persists bootstrapping, spawns
\* exactly one bootstrapper and leaves the state machine's stage and the
\* context's stage at bootstrapping.
C16_RetryBootstrapping ==
    [][\A w \in WorkflowIds :
          /\ (/\ Invokes("retryWorkflow", w)
              /\ CallArg(w) = "bootstrapping"
              /\ w \in DOMAIN workflowContexts
              /\ Stage(states, w) = "blocked"
              /\ LastMove(states[w].history, "bootstrapping", "blocked"))
                => /\ tasks'[w] # << >> /\ tasks'[w][1].status = "bootstrapping"
                   /\ Len(states'[w].history) = Len(states[w].history) + 1
                   /\ SubSeq(states'[w].history, 1, Len(states[w].history))
                        = states[w].history
                   /\ LastMove(states'[w].history, "blocked", "bootstrapping")
                   /\ Spawned(w) = {}
          /\ (/\ ReturnsOk("retryWorkflow", "bootstrapping", w)
              /\ BeforeCall(w).stage = "blocked"
              /\ LastMove(BeforeCall(w).history, "bootstrapping", "blocked"))
                => /\ Len(states'[w].history) = Len(BeforeCall(w).history) + 1
                   /\ LastMove(states'[w].history, "blocked", "bootstrapping")
                   /\ notion'[w] = "bootstrapping"
                   /\ Cardinality(SpawnedSinceCall(w)) = 1
                   /\ \A a \in SpawnedSinceCall(w) : a[1] = "bootstrapper"
                   /\ Stage(states', w) = "bootstrapping"
                   /\ workflowContexts'[w].currentStage = "bootstrapping"]_vars

C16_Witness ==
    /\ result = [op |-> "retryWorkflow", id |-> "w1", arg |-> "bootstrapping",
                 outcome |-> "ok"]
    /\ Path(HistoryOf(states, "w1"))
         = <<(<<"pending", "bootstrapping">>), (<<"bootstrapping", "blocked">>),
             (<<"blocked", "bootstrapping">>)>>
    /\ workflowContexts["w1"].currentStage = "bootstrapping"
    /\ notion["w1"] = "bootstrapping"
    /\ Cardinality({a \in DOMAIN processes : a[1] = "bootstrapper"}) = 2

----------------------------------------------------------------------------
(* Contracts of the spawner's timers *)

\* the identifiers the spawner generates when every timer is left to run out
LiveAgentIds == {generateAgentId(c, n) : c \in SpawnerConfigs, n \in 1..MaxLive}

Tracked(a) == a \in DOMAIN activeAgents

\* in this step the oldest 30 minute timer, respectively 5 second timer, fires
TimeoutFires == timeoutQueue # << >> /\ timeoutQueue' = Tail(timeoutQueue)

GraceEnds == graceQueue # << >> /\ graceQueue' = Tail(graceQueue)

\* C17: every worker registered by spawn is eventually removed from the
\* active set; a timeout that fires while its worker is tracked sends SIGTERM
\* and arms the grace period, a grace period that ends while the worker is
\* tracked sends SIGKILL, and a timeout that fires after the worker was
\* removed sends nothing.
C17_WorkersAreEventuallyRemoved ==
    /\ [][/\ TimeoutFires =>
              LET a == Head(timeoutQueue) IN
              IF Tracked(a)
              THEN /\ processes' = [processes EXCEPT ![a] = "SIGTERM"]
                   /\ graceQueue' = Append(graceQueue, a)
              ELSE /\ processes' = processes
                   /\ graceQueue' = graceQueue
          /\ GraceEnds =>
              LET a == Head(graceQueue) IN
              IF Tracked(a)
              THEN processes' = [processes EXCEPT ![a] = "SIGKILL"]
              ELSE processes' = processes]_vars
    /\ \A a \in LiveAgentIds : Tracked(a) ~> ~Tracked(a)

\* a worker nobody killed and that never exited by itself was removed
\* through its timeout, while a second one is mid-way: it has been sent
\* SIGKILL and is still tracked
C17_Witness ==
    /\ nCalls = 0 /\ nEvents = 0
    /\ \E a \in DOMAIN processes : processes[a] = "exit-failed" /\ ~Tracked(a)
    /\ \E a \in DOMAIN processes : processes[a] = "SIGKILL" /\ Tracked(a)
    /\ timeoutQueue = << >>

\* in this step killAgent is called
KillCalled == nCalls' = nCalls + 1 /\ result'.op = "killAgent"

\* C18: killAgent on an untracked identifier returns false, sends no signal
\* and arms no timer; on a tracked identifier it sends SIGTERM, arms the 5
\* second timer and returns true; SIGKILL is sent only when that timer fires
\* with the handle still tracked, hence only after SIGTERM and never to a
\* handle whose exit or error was observed in the meantime.
C18_KillIsGracefulFirst ==
    [][/\ KillCalled =>
          LET a == result'.agentId IN
          IF Tracked(a)
          THEN /\ result'.outcome = TRUE
               /\ processes' = [processes EXCEPT ![a] = "SIGTERM"]
               /\ graceQueue' = Append(graceQueue, a)
               /\ UNCHANGED <<activeAgents, timeoutQueue>>
          ELSE /\ result'.outcome = FALSE
               /\ UNCHANGED <<processes, graceQueue, activeAgents, timeoutQueue>>
       /\ \A a \in DOMAIN processes :
             (processes'[a] = "SIGKILL" /\ processes[a] # "SIGKILL")
             => /\ GraceEnds
                /\ a = Head(graceQueue)
                /\ Tracked(a)
                /\ processes[a] = "SIGTERM"
       /\ (GraceEnds /\ ~Tracked(Head(graceQueue))) => processes' = processes]_vars

\* a killed worker raised 'error' during the grace period and is still
\* running, the grace period has ended and no SIGKILL was sent to it
C18_Witness ==
    /\ result.op = "killAgent" /\ result.outcome = TRUE
    /\ ~Tracked(result.agentId)
    /\ processes[result.agentId] = "SIGTERM"
    /\ graceQueue = << >>
    /\ timeoutQueue # << >> /\ Head(timeoutQueue) = result.agentId

----------------------------------------------------------------------------
(* Contracts of the error handler *)

\* the messages that carry a transient-failure signature: ECONNREFUSED,
\* "Timeout" and "Rate limit", in any letter case; "rate-limited" has no
\* blank between its words and "Validation failed" names no signature
TransientMessages == {EconnRefused, RequestTimeout, RateLimit}

\* in this step handleError is called
HandleErrorCalled == result'.op = "handleError" /\ errorCounts' # errorCounts

\* C19: handleError returns a retry verdict, with a delay, exactly when the
\* error's message carries a transient-failure signature and the attempt
\* number is below 3; in every other case it returns a block verdict with
\* shouldRetry false and no delay.
C19_RetryIffTransientAndBelowCeiling ==
    [][HandleErrorCalled =>
          LET c == result'.context
              r == result'.outcome
          IN  IF c.error \in TransientMessages /\ c.attemptNumber < 3
              THEN /\ r.shouldRetry = TRUE
                   /\ r.strategy = "retry"
                   /\ r.retryDelay # NoArg
              ELSE /\ r.shouldRetry = FALSE
                   /\ r.strategy = "block"
                   /\ r.retryDelay = NoArg]_vars

\* a transient failure at attempt 3 was blocked after the same key had been
\* given retry verdicts
C19_Witness ==
    /\ result.op = "handleError"
    /\ result.context.error = RequestTimeout
    /\ result.context.attemptNumber = 3
    /\ result.outcome.strategy = "block"
    /\ getErrorCount(errorCounts, result.context.workflowId, result.context.stage) = 4

\* C20: for any sequence of handleError calls on one (workflow, stage) with
\* no reset in between, at most 3 calls return a retry verdict: once the
\* ceiling is reached every further transient failure is blocked.
C20_AtMostThreeRetries ==
    \A w \in EHWorkflowIds, s \in EHStages : RetriedOn(w, s) <= 3

\* the part of a returned delay that is not jitter
NonJittered(r) == r.outcome.retryDelay[1] - r.jitter[1]

OtherCountersKept(w, s) ==
    \A w2 \in EHWorkflowIds, s2 \in EHStages :
        (w2 # w \/ s2 # s) =>
            getErrorCount(errorCounts', w2, s2) = getErrorCount(errorCounts, w2, s2)

\* the step is a call of handleError: unlike HandleErrorCalled this does not
\* rely on a counter having changed
HandleErrorRuns ==
    /\ result'.op = "handleError"
    /\ <<result, errorCounts>>' # <<result, errorCounts>>

\* C22: every handleError call raises the counter of its own (workflow,
\* stage) by exactly one, whatever the verdict, and leaves every other
\* counter unchanged; resetErrorCount(w, s) puts only that counter back to
\* zero and clearAllErrors puts all of them back to zero.
C22_CountersFollowCalls ==
    [][/\ HandleErrorRuns =>
            LET c == result'.context
            IN  /\ getErrorCount(errorCounts', c.workflowId, c.stage)
                      = getErrorCount(errorCounts, c.workflowId, c.stage) + 1
                /\ OtherCountersKept(c.workflowId, c.stage)
       /\ result'.op = "resetErrorCount" =>
            /\ getErrorCount(errorCounts', result'.workflowId, result'.stage) = 0
            /\ OtherCountersKept(result'.workflowId, result'.stage)
       /\ result'.op = "clearAllErrors" =>
            \A w \in EHWorkflowIds, s \in EHStages :
                getErrorCount(errorCounts', w, s) = 0]_vars

\* a failure answered with a block verdict was counted as the second one of
\* its (workflow, stage), while another (workflow, stage) has failures counted
C22_Witness ==
    /\ result.op = "handleError"
    /\ result.outcome.strategy = "block"
    /\ getErrorCount(errorCounts, result.context.workflowId, result.context.stage) = 2
    /\ \E w \in EHWorkflowIds, s \in EHStages :
          /\ (w # result.context.workflowId \/ s # result.context.stage)
          /\ getErrorCount(errorCounts, w, s) = 1

----------------------------------------------------------------------------
(* Contracts of the coordinator: tracking, terminal runs, cleanup *)

\* C23: after any sequence of coordinator operations getActiveWorkflows()
\* returns exactly the tracked ids whose stage in the state machine is neither
\* complete nor blocked: the stage kept in each context equals the state
\* machine's current stage for that id.
C23_ActiveMatchesStateMachine ==
    /\ getActiveWorkflows(workflowContexts)
          = {w \in DOMAIN workflowContexts :
                /\ w \in DOMAIN states
                /\ states[w].currentState \notin {"complete", "blocked"}}
    /\ \A w \in DOMAIN workflowContexts :
          /\ w \in DOMAIN states
          /\ workflowContexts[w].currentStage = states[w].currentState

\* the operations a caller may direct at a run after startWorkflow
LaterOps == {"handleBootstrapperCompletion", "handleImplementerCompletion",
             "retryWorkflow"}

\* C24: once a run's stage is complete, every transition call for it throws
\* and leaves the state machine as it is, and every later
\* handleBootstrapperCompletion, handleImplementerCompletion or retryWorkflow
\* for it fails at once; the run's stage stays complete and its history is
\* unchanged.
C24_CompleteIsTerminal ==
    [][\A w \in WorkflowIds :
          Stage(states, w) = "complete" =>
            /\ \A to \in WorkflowState, m \in TransitionMetas :
                  /\ transitionError(states, w, to) = "Invalid state transition"
                  /\ transition(states, w, to, m) = states
            /\ \A op \in LaterOps :
                  Invokes(op, w) =>
                    /\ tasks'[w] = << >>
                    /\ result'.outcome # "ok"
                    /\ Stage(states', w) = "complete"
                    /\ HistoryOf(states', w) = HistoryOf(states, w)
                    /\ notion' = notion
                    /\ UNCHANGED spawnVars]_vars

\* a run that went all the way to complete was then reported a second,
\* failing implementer result, which was refused
C24_Witness ==
    /\ result.op = "handleImplementerCompletion"
    /\ result.arg = "failed"
    /\ result.outcome = "Invalid state transition"
    /\ Stage(states, "w1") = "complete"
    /\ Path(HistoryOf(states, "w1")) = HappyPath

\* C25: for a run in implementing, handleImplementerCompletion stores the
\* output; if the output reports a test failure it moves the run to blocked,
\* records the failing agent and the reason in the run's metadata and
\* persists blocked, never complete; otherwise it moves the run to complete
\* and persists complete.  Either way no worker is spawned.
C25_ImplementerCompletion ==
    [][\A w \in WorkflowIds :
          /\ (/\ Invokes("handleImplementerCompletion", w)
              /\ Stage(states, w) = "implementing")
                => /\ tasks'[w] # << >>
                   /\ tasks'[w][1].pc = "done"
                   /\ notion' = notion
                   /\ Spawned(w) = {}
                   /\ w \in DOMAIN workflowContexts'
                   /\ workflowContexts'[w].implementerOutput
                        = <<[testsPassed |-> (CallArg(w) = "passed")]>>
                   /\ IF CallArg(w) = "failed"
                      THEN /\ Stage(states', w) = "blocked"
                           /\ states'[w].metadata["agentType"] = "implementer"
                           /\ states'[w].metadata["reason"] = "Tests failed"
                           /\ workflowContexts'[w].currentStage = "blocked"
                           /\ tasks'[w][1].status = "blocked"
                      ELSE /\ Stage(states', w) = "complete"
                           /\ workflowContexts'[w].currentStage = "complete"
                           /\ tasks'[w][1].status = "complete"
          /\ \A arg \in {"passed", "failed"} :
                Continues("handleImplementerCompletion", arg, "implementing", w)
                  => /\ notion'[w] = IF arg = "failed" THEN "blocked" ELSE "complete"
                     /\ Stage(states', w) = notion'[w]
                     /\ tasks'[w] = << >>
                     /\ result'.outcome = "ok"
                     /\ Spawned(w) = {}]_vars

\* an implementer's test failure has blocked a run that got to implementing
\* on the regular path: blocked is persisted and the output is kept
C25_Witness ==
    /\ result = [op |-> "handleImplementerCompletion", id |-> "w1",
                 arg |-> "failed", outcome |-> "ok"]
    /\ Path(HistoryOf(states, "w1"))
         = SubSeq(HappyPath, 1, 3) \o <<(<<"implementing", "blocked">>)>>
    /\ notion["w1"] = "blocked"
    /\ workflowContexts["w1"].implementerOutput = <<[testsPassed |-> FALSE]>>
    /\ workflowContexts["w1"].lastFailure
         = <<[agentType |-> "implementer", reason |-> "Tests failed"]>>

----------------------------------------------------------------------------
(* Contract of the persistence collaborator's retry wrapper *)

\* the error raised by the invocation that settles in this step, if it fails
RaisedNow(e) == e.from = retryTask.invoked

\* withRetry throws e in this step, without invoking or waiting again
ThrowsNow(e) ==
    /\ retryTask'.pc = "idle"
    /\ result'.op = "withRetry" /\ result'.outcome = "thrown"
    /\ result'.error = <<e>>
    /\ result'.invoked = retryTask.invoked
    /\ result'.waited = retryTask.waited

\* C26: withRetry invokes the operation at most 3 times; it returns at the
\* first success; it invokes the operation again only after a rate-limited
\* failure and only after waiting 1000 * 2^attempt ms (1 s, then 2 s); a
\* failure that is not rate-limited is rethrown at once; a third rate-limited
\* failure is thrown without another wait.
C26_WithRetry ==
    [][/\ retryTask'.invoked <= 3
       /\ (retryTask.pc = "awaitOperation" /\ retryTask' # retryTask) =>
            \/ /\ retryTask'.pc = "idle"
               /\ result'.op = "withRetry" /\ result'.outcome = "ok"
               /\ result'.operation = retryTask.operation
               /\ result'.invoked = retryTask.invoked
               /\ result'.waited = retryTask.waited
            \/ \E code \in ErrorCodes :
                 LET e == [code |-> code, from |-> retryTask.invoked] IN
                 IF code # "rate_limited" THEN ThrowsNow(e)
                 ELSE IF retryTask.invoked = 3
                 THEN ThrowsNow(e) /\ retryTask.waited = <<1000, 2000>>
                 ELSE /\ retryTask'.pc = "awaitDelay"
                      /\ retryTask'.lastError = <<e>>
                      /\ retryTask'.invoked = retryTask.invoked
                      /\ retryTask'.delay = 1000 * pow2(retryTask.invoked - 1)
                      /\ UNCHANGED result
       /\ (retryTask.invoked >= 1 /\ retryTask'.invoked > retryTask.invoked) =>
            /\ retryTask'.invoked = retryTask.invoked + 1
            /\ retryTask.pc = "awaitDelay"
            /\ retryTask.lastError # NoArg
            /\ retryTask.lastError[1].code = "rate_limited"
            /\ retryTask.lastError[1].from = retryTask.invoked
            /\ retryTask.delay = IF retryTask.invoked = 1 THEN 1000 ELSE 2000
            /\ retryTask'.waited = Append(retryTask.waited, retryTask.delay)]_vars

\* a status update was rate-limited three times: withRetry waited 1 s and
\* 2 s and threw the third error
C26_Witness ==
    /\ retryTask.pc = "idle"
    /\ result = [op |-> "withRetry", operation |-> "updateWorkflowStatus",
                 outcome |-> "thrown",
                 error |-> <<[code |-> "rate_limited", from |-> 3]>>,
                 invoked |-> 3, waited |-> <<1000, 2000>>]

----------------------------------------------------------------------------
(* Contract of the spawner's identifiers *)

LiveChildren == {pid \in DOMAIN children : children[pid].running}

\* C27: spawnAgent never returns an identifier that is currently tracked:
\* registering a handle never overwrites one that is still in the active
\* set, so every live process is reachable through its own identifier and is
\* counted against the ceiling.
C27_IdentifiersAreNotReused ==
    /\ \A pid \in LiveChildren :
          /\ children[pid].agentId \in DOMAIN handles
          /\ handles[children[pid].agentId].process = pid
    /\ Cardinality(DOMAIN handles) = Cardinality(LiveChildren)

----------------------------------------------------------------------------
(* Contract of cleanupWorkflow *)

\* in this step cleanupWorkflow(w) is called
CleansUp(w) ==
    /\ nOps' = nOps + 1
    /\ tasks' = tasks
    /\ result'.op = "cleanupWorkflow" /\ result'.id = w

Untracked(st, ctx, w) == w \notin DOMAIN st /\ w \notin DOMAIN ctx

\* C28: cleanupWorkflow(id) removes id from the context map and from the
\* state machine, sends no signal to any worker and leaves the active set
\* unchanged; a later handleBootstrapperCompletion,
\* handleImplementerCompletion or retryWorkflow for id fails without
\* recreating the run.
C28_CleanupForgetsTheRun ==
    [][\A w \in WorkflowIds :
          /\ CleansUp(w) =>
                /\ Untracked(states', workflowContexts', w)
                /\ notion' = notion
                /\ UNCHANGED spawnVars
          /\ \A op \in LaterOps :
                (/\ Idle(w) /\ Invokes(op, w)
                 /\ Untracked(states, workflowContexts, w))
                  => /\ tasks'[w] = << >>
                     /\ result'.outcome \in {"not found", "not found in state machine"}
                     /\ Untracked(states', workflowContexts', w)
                     /\ notion' = notion
                     /\ UNCHANGED spawnVars]_vars

\* a run was abandoned while its bootstrapper was running: the worker is
\* still tracked and alive, and its result was refused
C28_Witness ==
    /\ result.op = "handleBootstrapperCompletion"
    /\ result.arg = "valid"
    /\ result.outcome = "not found in state machine"
    /\ Untracked(states, workflowContexts, "w1")
    /\ \E a \in DOMAIN activeAgents :
          a[1] = "bootstrapper" /\ a[2] = "w1" /\ processes[a] = "running"

----------------------------------------------------------------------------
(* Contract of the webhook endpoint *)

\* in this step handleWebhook answers a request
WebhookHandled ==
    /\ result'.op = "handleWebhook"
    /\ <<result, dispatched>>' # <<result, dispatched>>

\* the request carries the digest of its own body under the server's secret
CorrectlySigned(req) ==
    req.signature = hmacDigest(webhookSecret, IF req.raw = Undefined THEN "" ELSE req.raw)

IsJson(req) == req.raw \in {"created", "updated"}

\* C29: a payload is handed to the webhook handler only after the signature
\* check has passed and the body has parsed as JSON, in that order; a request
\* with a missing or invalid signature is answered 401 and is neither parsed
\* nor dispatched, also when its body is not JSON; a correctly signed body
\* that is not JSON is answered 400 and is not dispatched.
C29_VerifyThenParseThenDispatch ==
    [][WebhookHandled =>
          LET req == result'.request IN
          /\ ~CorrectlySigned(req) =>
                /\ result'.status = 401
                /\ result'.steps = <<"verify">>
                /\ dispatched' = dispatched
          /\ (CorrectlySigned(req) /\ ~IsJson(req)) =>
                /\ result'.status = 400
                /\ result'.steps = <<"verify", "parse">>
                /\ dispatched' = dispatched
          /\ dispatched' # dispatched =>
                /\ CorrectlySigned(req) /\ IsJson(req)
                /\ result'.steps = <<"verify", "parse", "dispatch">>
                /\ dispatched' = Append(dispatched, JsonValue[req.raw])]_vars

\* after an event was dispatched, a request with a header that is no digest
\* and a body that is no JSON was answered 401 without being parsed
C29_Witness ==
    /\ result.op = "handleWebhook"
    /\ result.request = [signature |-> <<"test-signature">>, raw |-> "invalid json"]
    /\ result.status = 401
    /\ result.steps = <<"verify">>
    /\ dispatched = <<[type |-> "page_created"]>>

----------------------------------------------------------------------------
(* Contract of the coordinator under interleaved operations *)

\* the stage each kind of worker serves
ServedStage == [bootstrapper |-> "bootstrapping", implementer |-> "implementing"]

\* C30: whenever the coordinator spawns a worker for workflow w, w's current
\* stage in the state machine is the stage that worker serves, also when
\* stage-advancing operations for w are interleaved at their persistence
\* suspension points.
C30_WorkerServesCurrentStage ==
    [][\A a \in DOMAIN processes' \ DOMAIN processes :
          Stage(states', a[2]) = ServedStage[a[1]]]_vars

----------------------------------------------------------------------------
(* Contracts of the coordinator: failed operations and the system of record *)

\* C31: if retryWorkflow(id, fromStage) raises any error, for any fromStage,
\* the run is left exactly as it was before the call: its stage is the stage
\* it had (blocked), no transition was appended, no status was persisted and
\* no worker was spawned.
C31_FailedRetryChangesNothing ==
    [][\A w \in WorkflowIds :
          (Returns({"retryWorkflow"}, w) /\ result'.outcome # "ok")
          => /\ Stage(states', w) = BeforeCall(w).stage
             /\ HistoryOf(states', w) = BeforeCall(w).history
             /\ notion'[w] = BeforeCall(w).status
             /\ SpawnedSinceCall(w) = {}]_vars

\* C32: for every workflow, whenever no coordinator operation on it is in
\* progress, the status most recently persisted successfully equals the state
\* machine's current stage for that workflow, also after an operation that
\* ended in an error because a persistence call failed or a spawn was
\* rejected.
C32_PersistedStatusMatchesStage ==
    \A w \in WorkflowIds :
        (Idle(w) /\ w \in DOMAIN states) => notion[w] = states[w].currentState

\* the stages in which a worker is supposed to be running
WorkingStages == {ServedStage[t] : t \in DOMAIN ServedStage}

\* C33: whenever no coordinator operation on a workflow is in progress and
\* its stage is bootstrapping or implementing, a worker for that stage was
\* successfully spawned for the run's current entry into that stage: an
\* operation that returns or throws having moved the run into a working stage
\* has spawned the worker that serves it, and a spawn refused for capacity
\* reaches the caller as an error without leaving the run in a working stage.
C33_WorkingStageHasItsWorker ==
    [][\A w \in WorkflowIds :
          Returns(CoordinatorOps, w)
          => /\ (/\ Stage(states', w) \in WorkingStages
                 /\ HistoryOf(states', w) # BeforeCall(w).history)
                   => \E a \in SpawnedSinceCall(w) :
                          ServedStage[a[1]] = Stage(states', w)
             /\ (/\ tasks[w] # << >>
                 /\ tasks[w][1].pc \in {"spawnBootstrapper", "spawnImplementer"}
                 /\ result'.outcome # "updateWorkflowStatus failed"
                 /\ spawnRejected(activeAgents))
                   => /\ result'.outcome = "Max concurrent agents reached"
                      /\ Stage(states', w) \notin WorkingStages]_vars

----------------------------------------------------------------------------
(* Contracts of the spawner: refused spawns and the removal of handles *)

\* in this step a call of spawnAgent is refused for capacity
SpawnRefused ==
    /\ result' # result
    /\ result'.op = "spawnAgent"
    /\ result'.outcome = "Max concurrent agents reached"

\* in this step spawnAgent returns agentId to its caller
SpawnReturns(agentId) ==
    /\ result'.op = "spawnAgent"
    /\ result'.outcome = "ok"
    /\ result'.agentId = agentId

\* C34: a spawn rejected for capacity launches no process, registers no
\* handle, arms no timeout and leaves the active set exactly as it was; there
\* is no queue, so the rejected request is never started later when a slot
\* frees up: a process is launched, a handle registered and a timeout armed
\* only in the step in which spawnAgent returns that identifier.
C34_RefusedSpawnDoesNothing ==
    [][/\ SpawnRefused
          => /\ processes' = processes
             /\ activeAgents' = activeAgents
             /\ timeoutQueue' = timeoutQueue
             /\ graceQueue' = graceQueue
       /\ \A a \in DOMAIN processes' \ DOMAIN processes : SpawnReturns(a)
       /\ \A a \in DOMAIN activeAgents' \ DOMAIN activeAgents : SpawnReturns(a)
       /\ Len(timeoutQueue') > Len(timeoutQueue)
          => SpawnReturns(timeoutQueue'[Len(timeoutQueue')])]_vars

\* a spawn was refused with ten handles active, then one of the ten workers
\* exited, and no eleventh process exists
C34_Witness ==
    /\ result = [op |-> "spawnAgent", outcome |-> "Max concurrent agents reached"]
    /\ Cardinality(DOMAIN activeAgents) = maxConcurrentAgents - 1
    /\ Cardinality(DOMAIN processes) = maxConcurrentAgents
    /\ nextAgentId = maxConcurrentAgents
    /\ nEvents = 1

\* in this step the exit or the error observer of a process runs
ObserverRuns ==
    /\ nEvents' = nEvents + 1
    /\ timeoutQueue' = timeoutQueue
    /\ graceQueue' = graceQueue

\* in this step killAgent, shutdown or the callback of a timer runs
KillPathRuns ==
    \/ nCalls' = nCalls + 1
    \/ Len(timeoutQueue') < Len(timeoutQueue)
    \/ Len(graceQueue') < Len(graceQueue)

----------------------------------------------------------------------------
(* Contract of the error handler's statistics *)

\* errorsByWorkflow[id] || 0: the figure a reader finds for a workflow id
FigureFor(errorsByWorkflow, workflowId) ==
    IF workflowId \in DOMAIN errorsByWorkflow
    THEN errorsByWorkflow[workflowId] ELSE 0

\* the failures counted for a workflow id over all of its stages
CountedFor(workflowId) ==
    SumOver(errorCounts,
            {key \in DOMAIN errorCounts :
                \E stage \in EHStages : key = errorKey(workflowId, stage)})

\* C36: getStatistics() reports totalErrors equal to the sum of all failure
\* counters, and for every workflow id w the per-workflow figure equals the
\* sum of w's counters over all stages, failures of two different workflow
\* ids never being added together, also for ids that contain a hyphen.
C36_StatisticsPerWorkflow ==
    [][result'.op = "getStatistics"
       => /\ result'.outcome.totalErrors = TotalCounted
          /\ \A w \in EHWorkflowIds :
                FigureFor(result'.outcome.errorsByWorkflow, w) = CountedFor(w)
          /\ \A id \in DOMAIN result'.outcome.errorsByWorkflow :
                \E w \in EHWorkflowIds :
                    result'.outcome.errorsByWorkflow[id] = CountedFor(w)]_vars

====
